---- MODULE Spec2Model ----
(***************************************************************************)
(* A model of the Xel'thor translator: the translation engine              *)
(* (translator.py, vocabulary.py), the credential and session manager      *)
(* (auth_manager.py), the dictionary store (dictionary_manager.py) and     *)
(* the menu handlers of main.py that connect them.                         *)
(*                                                                         *)
(* Python strings are modelled as sequences of one-character strings, so   *)
(* that startswith, endswith, strip, lower, split and join are computed    *)
(* character by character as the interpreter computes them.                *)
(***************************************************************************)
EXTENDS Integers, Sequences, FiniteSets, TLC

VARIABLES
    text,          \* translator: the text handed to the translate call
    tense,         \* translator: the tense argument of translate_to_xelthor
    out,           \* translator: the string the first call returned
    back,          \* translator: translate_to_english of that string
    phase,         \* translator: which call has run
    users,         \* auth file: auth_data["users"], username -> account
    sessions,      \* AuthManager.sessions, token -> session
    tokenCtr,      \* number of session tokens minted by secrets.token_hex
    saltCtr,       \* number of salts drawn by _generate_salt
    now,           \* datetime.now(), in hours since start
    current_user,  \* XelthorInterface.current_user
    dictionary,    \* content of the dictionary file (DICTIONARY)
    backups,       \* backup directory: timestamp -> content of that backup
    writes,        \* dictionary file: how many times write_dictionary wrote it
    clock,         \* datetime.now() of the dictionary manager, in seconds
    pending,       \* per caller: the store call it is in, with its local variables
    wrapper,       \* the frame of a require_auth wrapper that is running
    ret            \* the last call made and what it returned

vars == << text, tense, out, back, phase, users, sessions, tokenCtr, saltCtr,
           now, current_user, dictionary, backups, writes, clock, pending,
           wrapper, ret >>

translatorVars == << text, tense, out, back, phase >>
authVars == << users, sessions, tokenCtr, saltCtr, now, current_user >>
lexiconVars == << dictionary, backups, writes, clock >>
frameVars == << pending, wrapper >>

\* Python's None, where a string is expected
None == << "None" >>

\* Python's None, where a session token is expected
NoToken == -1

\* the callers whose store calls may interleave
Callers == { "A", "B" }

\* a caller that is in no call, a wrapper that is not running
Idle == [ pc |-> "idle" ]

-----------------------------------------------------------------------------
(* Python str operations on sequences of characters.                       *)

UpperChars == {"A", "B", "C", "D", "E", "F", "G", "H", "I", "J", "K", "L", "M", "N", "O", "P", "Q", "R", "S", "T", "U", "V", "W", "X", "Y", "Z"}

LowerOf ==
    ("A" :> "a") @@ ("B" :> "b") @@ ("C" :> "c") @@ ("D" :> "d") @@ ("E" :> "e") @@ ("F" :> "f")
    @@ ("G" :> "g") @@ ("H" :> "h") @@ ("I" :> "i") @@ ("J" :> "j") @@ ("K" :> "k") @@ ("L" :> "l")
    @@ ("M" :> "m") @@ ("N" :> "n") @@ ("O" :> "o") @@ ("P" :> "p") @@ ("Q" :> "q") @@ ("R" :> "r")
    @@ ("S" :> "s") @@ ("T" :> "t") @@ ("U" :> "u") @@ ("V" :> "v") @@ ("W" :> "w") @@ ("X" :> "x")
    @@ ("Y" :> "y") @@ ("Z" :> "z")

\* str.lower() on one character
LowerChar(c) == IF c \in UpperChars THEN LowerOf[c] ELSE c

\* str.lower()
Lower(s) == [i \in 1..Len(s) |-> LowerChar(s[i])]

\* str.startswith(p)
StartsWith(s, p) == Len(s) >= Len(p) /\ SubSeq(s, 1, Len(p)) = p

\* str.endswith(p)
EndsWith(s, p) == Len(s) >= Len(p) /\ SubSeq(s, Len(s) - Len(p) + 1, Len(s)) = p

\* p in s, for strings
RECURSIVE Contains(_, _)
Contains(s, p) ==
    IF Len(s) < Len(p) THEN FALSE
    ELSE StartsWith(s, p) \/ Contains(Tail(s), p)

RECURSIVE LStrip(_, _)
LStrip(s, cs) == IF s # <<>> /\ Head(s) \in cs THEN LStrip(Tail(s), cs) ELSE s

RECURSIVE RStrip(_, _)
RStrip(s, cs) ==
    IF s # <<>> /\ s[Len(s)] \in cs THEN RStrip(SubSeq(s, 1, Len(s) - 1), cs) ELSE s

\* str.strip(chars): every leading and trailing character of the set goes
Strip(s, cs) == RStrip(LStrip(s, cs), cs)

Whitespace == {" "}

RECURSIVE SplitAcc(_, _, _)
SplitAcc(s, cur, acc) ==
    IF s = <<>> THEN (IF cur = <<>> THEN acc ELSE Append(acc, cur))
    ELSE IF Head(s) \in Whitespace
         THEN SplitAcc(Tail(s), <<>>, IF cur = <<>> THEN acc ELSE Append(acc, cur))
         ELSE SplitAcc(Tail(s), Append(cur, Head(s)), acc)

\* str.split() with no argument: runs of whitespace separate, no empty token
Split(s) == SplitAcc(s, <<>>, <<>>)

RECURSIVE Join(_)
\* " ".join(words)
Join(words) ==
    IF words = <<>> THEN <<>>
    ELSE IF Len(words) = 1 THEN words[1]
    ELSE words[1] \o <<" ">> \o Join(Tail(words))

-----------------------------------------------------------------------------
(* vocabulary.py: the vocabulary the translator is built from, in the      *)
(* order the dict literal lists it.                                        *)

Vocabulary == <<
    << <<"t","r","a","v","e","l">>,
       <<"z","z","'","r","i","x">> >>,  \* travel: zz'rix
    << <<"c","o","m","m","u","n","i","c","a","t","e">>,
       <<"p","h","'","s","o","r">> >>,  \* communicate: ph'sor
    << <<"s","e","e">>,
       <<"x","a","'","l","o","r">> >>,  \* see: xa'lor
    << <<"t","h","i","n","k">>,
       <<"m","i","i","'","s","o","r">> >>,  \* think: mii'sor
    << <<"s","h","a","r","e">>,
       <<"p","h","'","s","o","r">> >>,  \* share: ph'sor
    << <<"c","r","e","a","t","e">>,
       <<"v","o","r","'","t","i","x">> >>,  \* create: vor'tix
    << <<"l","e","a","r","n">>,
       <<"m","i","i","'","z","a","r">> >>,  \* learn: mii'zar
    << <<"s","p","e","a","k">>,
       <<"p","h","'","l","o","r">> >>,  \* speak: ph'lor
    << <<"t","r","a","v","e","l","e","r">>,
       <<"x","e","l","'","t","h","o","r">> >>,  \* traveler: xel'thor
    << <<"s","t","a","r">>,
       <<"x","e","l","'","k","a">> >>,  \* star: xel'ka
    << <<"s","h","i","p">>,
       <<"x","e","l","'","v","o","r">> >>,  \* ship: xel'vor
    << <<"w","o","r","l","d">>,
       <<"x","e","l","'","t","h","a","l">> >>,  \* world: xel'thal
    << <<"b","o","d","y">>,
       <<"x","e","l","'","p","h","i">> >>,  \* body: xel'phi
    << <<"l","i","g","h","t">>,
       <<"v","o","r","'","k","a","a","n">> >>,  \* light: vor'kaan
    << <<"e","n","e","r","g","y">>,
       <<"v","o","r","'","t","h","i">> >>,  \* energy: vor'thi
    << <<"p","o","w","e","r">>,
       <<"v","o","r","'","z","i","x">> >>,  \* power: vor'zix
    << <<"s","p","a","c","e">>,
       <<"v","o","r","'","t","h","a","l">> >>,  \* space: vor'thal
    << <<"t","i","m","e">>,
       <<"v","o","r","'","p","h","i">> >>,  \* time: vor'phi
    << <<"w","i","s","d","o","m">>,
       <<"m","i","i","'","p","a","t","h">> >>,  \* wisdom: mii'path
    << <<"k","n","o","w","l","e","d","g","e">>,
       <<"m","i","i","'","p","a","t","h">> >>,  \* knowledge: mii'path
    << <<"t","r","u","t","h">>,
       <<"m","i","i","'","k","a","n">> >>,  \* truth: mii'kan
    << <<"t","h","o","u","g","h","t">>,
       <<"m","i","i","'","l","o","r">> >>,  \* thought: mii'lor
    << <<"u","n","i","t","y">>,
       <<"m","i","i","'","z","o","l">> >>,  \* unity: mii'zol
    << <<"t","h","r","o","u","g","h">>,
       <<"v","o","r">> >>,  \* through: vor
    << <<"b","e","t","w","e","e","n">>,
       <<"z","z">> >>,  \* between: zz
    << <<"w","i","t","h">>,
       <<"p","h","i">> >>,  \* with: phi
    << <<"i","n">>,
       <<"k","a">> >>,  \* in: ka
    << <<"t","o">>,
       <<"t","h">> >>,  \* to: th
    << <<"f","r","o","m">>,
       <<"r","x">> >>   \* from: rx
    >>

\* VocabularyManager.get_eng_to_xel: a copy of the dict
get_eng_to_xel ==
    [e \in {Vocabulary[i][1] : i \in 1..Len(Vocabulary)} |->
        LET last == CHOOSE i \in 1..Len(Vocabulary) :
                        /\ Vocabulary[i][1] = e
                        /\ \A j \in 1..Len(Vocabulary) : Vocabulary[j][1] = e => j <= i
        IN Vocabulary[last][2]]

\* the reverse map if the first entry with a Xel'thor form were kept
get_xel_to_eng_first_writer ==
    [x \in {Vocabulary[i][2] : i \in 1..Len(Vocabulary)} |->
        LET first == CHOOSE i \in 1..Len(Vocabulary) :
                        /\ Vocabulary[i][2] = x
                        /\ \A j \in 1..Len(Vocabulary) : Vocabulary[j][2] = x => i <= j
        IN Vocabulary[first][1]]

\* VocabularyManager.get_xel_to_eng: {v: k for k, v in items()}; a later
\* entry with the same Xel'thor form overwrites an earlier one
get_xel_to_eng ==
    [x \in {Vocabulary[i][2] : i \in 1..Len(Vocabulary)} |->
        LET last == CHOOSE i \in 1..Len(Vocabulary) :
                        /\ Vocabulary[i][2] = x
                        /\ \A j \in 1..Len(Vocabulary) : Vocabulary[j][2] = x => j <= i
        IN Vocabulary[last][1]]

-----------------------------------------------------------------------------
(* translator.py                                                           *)

\* XelthorTranslator.__init__: both maps are read from VocabularyManager
\* once, at construction; no method of the class assigns them again
eng_to_xel == get_eng_to_xel

xel_to_eng == get_xel_to_eng

\* self.tones, in the order the dict literal lists it
tones == << << "present", <<>> >>,
            << "past",    <<"-","p","a">> >>,
            << "future",  <<"-","z","i">> >>,
            << "eternal", <<"-","t","h">> >> >>

ToneNames == {tones[i][1] : i \in 1..Len(tones)}

ToneMarker(t) == tones[CHOOSE i \in 1..Len(tones) : tones[i][1] = t][2]

\* the literal list ["zz'", "ph'", "xa'", "vor'", "mii'"]
VerbPrefixes == { <<"z","z","'">>, <<"p","h","'">>, <<"x","a","'">>,
                  <<"v","o","r","'">>, <<"m","i","i","'">> }

\* any(word.startswith(p) for p in [...])
HasVerbPrefix(word) == \E p \in VerbPrefixes : StartsWith(word, p)

SetMin(S) == CHOOSE i \in S : \A j \in S : i <= j

\* the loop of apply_grammar_rules that looks for the verb: the index of the
\* first word that passes the test, 0 when there is none (verb_index is None)
verb_index(words, to_xelthor) ==
    LET hits == {i \in 1..Len(words) :
                    IF to_xelthor
                    THEN /\ words[i] \in DOMAIN eng_to_xel
                         /\ HasVerbPrefix(eng_to_xel[words[i]])
                    ELSE /\ words[i] \in DOMAIN xel_to_eng
                         /\ HasVerbPrefix(words[i])}
    IN IF hits = {} THEN 0 ELSE SetMin(hits)

apply_grammar_rules(words, to_xelthor) ==
    IF Len(words) < 3 THEN words
    ELSE LET v == verb_index(words, to_xelthor)
             after == SubSeq(words, v + 1, Len(words))
             before == SubSeq(words, 1, v - 1)
         IN IF v = 0 THEN words
            ELSE IF to_xelthor THEN << words[v] >> \o after \o before
            ELSE after \o << words[v] >> \o before

\* the call if no tense had a suffix
apply_tense_unmarked(xelthor_word, t) == xelthor_word

apply_tense(xelthor_word, t) ==
    IF t \in ToneNames THEN xelthor_word \o ToneMarker(t) ELSE xelthor_word

Punctuation == {".", ",", "!", "?"}

\* the first pass of translate_to_xelthor, for one token
translate_word(word) ==
    LET clean_word == Strip(word, Punctuation)
    IN IF clean_word \in DOMAIN eng_to_xel
       THEN eng_to_xel[clean_word]
       ELSE <<"[">> \o clean_word \o <<"]">>

\* arguments that are not strings: the number 5 as a text (None is the
\* other one), a list as a tense
PyInt5 == << "int", "5" >>
PyList == "['past']"

\* `not text`: the empty string, None
Falsy(value) == value = <<>> \/ value = None

\* what str(e) is when a method of str is called on the number, and when a
\* list is looked up in the dict self.tones
E_no_lower == <<"'","i","n","t","'"," ","o","b","j","e","c","t"," ","h","a","s"," ","n","o"," ","a","t","t","r","i","b","u","t","e"," ","'","l","o","w","e","r","'">>
E_no_strip == <<"'","i","n","t","'"," ","o","b","j","e","c","t"," ","h","a","s"," ","n","o"," ","a","t","t","r","i","b","u","t","e"," ","'","s","t","r","i","p","'">>
E_unhashable == <<"u","n","h","a","s","h","a","b","l","e"," ","t","y","p","e",":"," ","'","l","i","s","t","'">>

S_TranslationError == <<"T","r","a","n","s","l","a","t","i","o","n"," ","e","r","r","o","r",":">>

\* an exception that leaves the call, as the value the caller gets
Raised(e) == << "raise" >> \o e

\* the call if the exception were not caught
except_reraise(e) == Raised(e)

\* except Exception as e: return f"Translation error: {str(e)}"
except_handler(e) == S_TranslationError \o <<" ">> \o e

translate_to_xelthor(english_text, t) ==
    IF Falsy(english_text) THEN <<>>
    ELSE IF english_text = PyInt5 THEN except_handler(E_no_lower)
    ELSE LET words == Split(Strip(Lower(english_text), Whitespace))
             xelthor_words == [i \in 1..Len(words) |-> translate_word(words[i])]
             ordered == apply_grammar_rules(xelthor_words, TRUE)
             final_words == [i \in 1..Len(ordered) |->
                                IF HasVerbPrefix(ordered[i])
                                THEN apply_tense(ordered[i], t)
                                ELSE ordered[i]]
         IN \* apply_tense tests `tense in self.tones`, which raises for a list
            IF t = PyList /\ \E i \in 1..Len(ordered) : HasVerbPrefix(ordered[i])
            THEN except_handler(E_unhashable)
            ELSE Join(final_words)

\* the loop over self.tones.items(): << base_word, tense >> of one token
strip_tense(word) ==
    LET hits == {i \in 1..Len(tones) : tones[i][2] # <<>> /\ EndsWith(word, tones[i][2])}
    IN IF hits = {} THEN << word, "present" >>
       ELSE LET i == SetMin(hits)
            IN << SubSeq(word, 1, Len(word) - Len(tones[i][2])), tones[i][1] >>

S_will == <<"w","i","l","l">>
S_had == <<"h","a","d">>
S_was == <<"w","a","s">>
S_did == <<"d","i","d">>
S_ing == <<"i","n","g">>

InList(w, list) == \E i \in 1..Len(list) : list[i] = w

\* one round of the loop of translate_to_english: english_words after `word`
english_step(english_words, word) ==
    LET base_word == strip_tense(word)[1]
        tns == strip_tense(word)[2]
        hit == base_word \in DOMAIN xel_to_eng
        insert_will == /\ hit /\ tns # "present"
                       /\ english_words # <<>> /\ english_words[1] # S_will
                       /\ tns = "future"
        reword_past == /\ hit /\ tns # "present" /\ ~insert_will
                       /\ english_words # <<>>
                       /\ ~(InList(S_had, english_words) \/ InList(S_was, english_words))
                       /\ tns = "past"
        translated ==
            IF hit
            THEN IF reword_past
                 THEN (IF EndsWith(xel_to_eng[base_word], S_ing) THEN S_was ELSE S_did)
                      \o <<" ">> \o xel_to_eng[base_word]
                 ELSE xel_to_eng[base_word]
            ELSE IF StartsWith(base_word, <<"[">>) /\ EndsWith(base_word, <<"]">>)
                 THEN Strip(base_word, {"[", "]"})
                 ELSE base_word
    IN (IF insert_will THEN << S_will >> ELSE <<>>) \o english_words \o << translated >>

RECURSIVE english_pass(_, _)
english_pass(words, english_words) ==
    IF words = <<>> THEN english_words
    ELSE english_pass(Tail(words), english_step(english_words, Head(words)))

translate_to_english(xelthor_text) ==
    IF Falsy(xelthor_text) THEN <<>>
    ELSE IF xelthor_text = PyInt5 THEN except_handler(E_no_strip)
    ELSE LET words == Split(Strip(xelthor_text, Whitespace))
             english_words == english_pass(words, <<>>)
         IN Join(apply_grammar_rules(english_words, FALSE))

-----------------------------------------------------------------------------
(* The texts the translate calls are tried on.                             *)

MaxTokens == 3

W_traveler == <<"t","r","a","v","e","l","e","r">>
W_see == <<"s","e","e">>
W_star == <<"s","t","a","r">>
W_light == <<"l","i","g","h","t">>
W_hello == <<"h","e","l","l","o">>
W_StarBang == <<"S","t","a","r","!">>
W_bracket == <<"[","x">>

X_xalor == <<"x","a","'","l","o","r">>
X_xelka == <<"x","e","l","'","k","a">>
X_xelthor == <<"x","e","l","'","t","h","o","r">>
X_zzrix == <<"z","z","'","r","i","x">>
X_hello == <<"[","h","e","l","l","o","]">>

\* English tokens: xel' nouns, a verb, a vor' noun, an unknown word, a word
\* with a capital and punctuation, an unknown word that starts with a bracket
EngWords == { W_traveler, W_see, W_star, W_light, W_hello, W_StarBang, W_bracket }

\* Xel'thor tokens: a verb, two nouns, a verb in each marked tense, a marker
\* of an unknown word
XelWords == { X_xalor, X_xelka, X_xelthor,
              X_zzrix \o ToneMarker("past"), X_zzrix \o ToneMarker("future"),
              X_xalor \o ToneMarker("eternal"), X_hello }

SeqsUpTo(S, n) == UNION { [1..k -> S] : k \in 0..n }

VocabularyKeys == DOMAIN eng_to_xel

Markers == { tones[i][2] : i \in 1..Len(tones) } \ { <<>> }

EngTexts == { Join(ws) : ws \in SeqsUpTo(EngWords, MaxTokens) } \cup VocabularyKeys

XelTexts == { Join(ws) : ws \in SeqsUpTo(XelWords, MaxTokens) }
            \cup { x \o m : x \in DOMAIN xel_to_eng, m \in Markers }

TenseInputs == ToneNames \cup { "bogus" }

-----------------------------------------------------------------------------
(* auth_manager.py                                                         *)

MaxSessions == 2
MaxSalts == 1
MaxNow == 25

\* timedelta(hours=24)
SessionHours == 24

P_admin123 == <<"a","d","m","i","n","1","2","3">>
P_Valid123 == <<"V","a","l","i","d","1","2","3">>
P_short1 == <<"s","h","o","r","t","1">>

\* passwords typed at a login prompt or given as the old password
Passwords == { P_admin123, P_Valid123 }

\* passwords given as a new password: one that passes the strength rule and
\* one that is too short
NewPasswords == { P_Valid123, P_short1 }

N_admin == <<"a","d","m","i","n">>
N_alice == <<"a","l","i","c","e">>
N_mallory == <<"m","a","l","l","o","r","y">>
N_Cancel == <<"C","a","n","c","e","l">>

Usernames == { N_admin, N_alice }

\* names given to verify_credentials: the accounts and a name that never
\* has an account
TypedNames == Usernames \cup { N_mallory }

\* names typed at the login prompt: those, and the word that leaves the prompt
LoginNames == TypedNames \cup { N_Cancel }

Roles == { "admin", "user" }

\* the fixed salt and hash of the default admin account
\* the hex strings of the default account, each as a sequence of one piece
DefaultSalt == << "5e884898da28047151d0e56f8dc6292773603d0d6aabbdd62a11ef721d1542d8" >>

DefaultHash == << "240be518fabd2724ddb6f04eeb1da5967448d7e831c08c8fa822809f74c720a9" >>

\* _generate_salt: secrets.token_hex(32), a value never drawn before
generate_salt == << "salt", saltCtr + 1 >>

\* _hash_password: SHA-256 of salt + password is modelled as the pair, which
\* like the digest differs whenever the salt or the password differs
hash_password(password, salt) ==
    IF password = P_admin123 /\ salt = DefaultSalt
    THEN DefaultHash
    ELSE << "sha256", salt, password >>

LowerChars == { LowerOf[c] : c \in UpperChars }

DigitChars == { "0", "1", "2", "3", "4", "5", "6", "7", "8", "9" }

PasswordIsValid == "Password is valid"

MinPasswordLen == 8

\* the rule if a password of exactly 8 characters were too short
validate_password_over_8(password) ==
    IF Len(password) <= MinPasswordLen
    THEN "Password must be at least 8 characters long"
    ELSE IF ~\E i \in 1..Len(password) : password[i] \in UpperChars
         THEN "Password must contain at least one uppercase letter"
    ELSE IF ~\E i \in 1..Len(password) : password[i] \in LowerChars
         THEN "Password must contain at least one lowercase letter"
    ELSE IF ~\E i \in 1..Len(password) : password[i] \in DigitChars
         THEN "Password must contain at least one number"
    ELSE PasswordIsValid

\* _validate_password: the message of the first rule the password breaks
validate_password(password) ==
    IF Len(password) < MinPasswordLen
    THEN "Password must be at least 8 characters long"
    ELSE IF ~\E i \in 1..Len(password) : password[i] \in UpperChars
         THEN "Password must contain at least one uppercase letter"
    ELSE IF ~\E i \in 1..Len(password) : password[i] \in LowerChars
         THEN "Password must contain at least one lowercase letter"
    ELSE IF ~\E i \in 1..Len(password) : password[i] \in DigitChars
         THEN "Password must contain at least one number"
    ELSE PasswordIsValid

\* initialize_auth_file on a first run: the file holds the default admin
\* (created_at, which no code reads, is left out of the account)
default_admin == [ username |-> N_admin, password |-> DefaultHash,
                   salt |-> DefaultSalt, role |-> "admin" ]

\* tokens a caller can present: every token minted so far and one that
\* secrets.token_hex never returned
BogusToken == 0

PresentableTokens == { BogusToken } \cup 1..tokenCtr

Without(f, S) == [k \in DOMAIN f \ S |-> f[k]]

\* the test if the password were not compared
credentials_match_any_password(username, password) ==
    username \in DOMAIN users

\* verify_credentials, the test that decides success: the account exists and
\* the hash of the password under the stored salt is the stored hash
credentials_match(username, password) ==
    /\ username \in DOMAIN users
    /\ hash_password(password, users[username].salt) = users[username].password

\* verify_credentials, the session it registers
new_session(username) ==
    [ username |-> username, role |-> users[username].role,
      expires |-> now + SessionHours ]

\* the result if a session were still valid at the moment it expires
session_valid_at_expiry(session_token) ==
    /\ session_token # BogusToken
    /\ session_token \in DOMAIN sessions
    /\ now <= sessions[session_token].expires

\* verify_session, its result: the token is registered and not yet expired
session_valid(session_token) ==
    /\ session_token # BogusToken
    /\ session_token \in DOMAIN sessions
    /\ now < sessions[session_token].expires

\* verify_session, its effect on self.sessions: an expired session is deleted
sessions_after_verify(session_token) ==
    IF /\ session_token # BogusToken
       /\ session_token \in DOMAIN sessions
       /\ ~(now < sessions[session_token].expires)
    THEN Without(sessions, {session_token})
    ELSE sessions

\* the test if the role of the session were not looked at
is_admin_session_any_role(session_token) ==
    session_valid(session_token)

\* the test add_user and remove_user make of the acting token
is_admin_session(session_token) ==
    session_valid(session_token) /\ sessions[session_token].role = "admin"

\* verify_credentials, the tuple it returns
credentials_result(username, password) ==
    IF credentials_match(username, password)
    THEN << TRUE, tokenCtr + 1 >>
    ELSE << FALSE, NoToken >>

\* verify_credentials, what it does to the sessions
credentials_effect(username, password) ==
    IF credentials_match(username, password)
    THEN /\ tokenCtr < MaxSessions
         /\ tokenCtr' = tokenCtr + 1
         /\ sessions' = sessions @@ (tokenCtr + 1 :> new_session(username))
    ELSE UNCHANGED << tokenCtr, sessions >>

verify_credentials(username, password) ==
    /\ credentials_effect(username, password)
    /\ ret' = [ op |-> "verify_credentials", username |-> username,
                password |-> password,
                ok |-> credentials_result(username, password)[1],
                token |-> credentials_result(username, password)[2] ]
    /\ UNCHANGED << users, saltCtr, now, current_user >>
    /\ UNCHANGED << translatorVars, lexiconVars, frameVars >>

verify_session(session_token) ==
    /\ sessions' = sessions_after_verify(session_token)
    /\ ret' = [ op |-> "verify_session", token |-> session_token,
                ok |-> session_valid(session_token),
                session |-> IF session_valid(session_token)
                            THEN sessions[session_token] ELSE None,
                expired |-> sessions_after_verify(session_token) # sessions ]
    /\ UNCHANGED << users, tokenCtr, saltCtr, now, current_user >>
    /\ UNCHANGED << translatorVars, lexiconVars, frameVars >>

invalidate_session(session_token) ==
    /\ sessions' = Without(sessions, {session_token})
    /\ ret' = [ op |-> "invalidate_session", token |-> session_token,
                ok |-> session_token \in DOMAIN sessions ]
    /\ UNCHANGED << users, tokenCtr, saltCtr, now, current_user >>
    /\ UNCHANGED << translatorVars, lexiconVars, frameVars >>

\* what the auth file does when a call opens it: it is read and written, or
\* open(..., 'r') raises, or open(..., 'w') raises and leaves the file as it is
StorageOutcomes == { "ok", "read fails", "write fails" }

E_read == "[Errno 2] No such file or directory: 'xelthor_auth.json'"
E_write == "[Errno 13] Permission denied: 'xelthor_auth.json'"

add_user(admin_session_token, new_username, new_password, role, storage) ==
    LET call == [ op |-> "add_user", token |-> admin_session_token,
                  username |-> new_username, password |-> new_password,
                  role |-> role ]
        result(ok, msg) == call @@ [ ok |-> ok, msg |-> msg ]
        salt == generate_salt
    IN /\ sessions' = sessions_after_verify(admin_session_token)
       /\ IF ~is_admin_session(admin_session_token)
          THEN /\ ret' = result(FALSE, "Unauthorized access")
               /\ UNCHANGED << users, saltCtr >>
          ELSE IF validate_password(new_password) # PasswordIsValid
          THEN /\ ret' = result(FALSE, validate_password(new_password))
               /\ UNCHANGED << users, saltCtr >>
          ELSE IF storage = "read fails"
          THEN /\ ret' = result(FALSE, << "Error adding user: ", E_read >>)
               /\ UNCHANGED << users, saltCtr >>
          ELSE IF new_username \in DOMAIN users
          THEN /\ ret' = result(FALSE, "Username already exists")
               /\ UNCHANGED << users, saltCtr >>
          ELSE IF storage = "write fails"
          THEN /\ ret' = result(FALSE, << "Error adding user: ", E_write >>)
               /\ UNCHANGED << users, saltCtr >>
          ELSE /\ saltCtr < MaxSalts
               /\ saltCtr' = saltCtr + 1
               /\ users' = users @@ (new_username :>
                              [ username |-> new_username,
                                password |-> hash_password(new_password, salt),
                                salt |-> salt, role |-> role ])
               /\ ret' = result(TRUE, "User added successfully")
       /\ UNCHANGED << tokenCtr, now, current_user >>
       /\ UNCHANGED << translatorVars, lexiconVars, frameVars >>

\* the test if no account name were kept from removal
is_protected_none(username) == FALSE

\* remove_user, the account it refuses to remove
is_protected(username) == username = N_admin

\* the cascade if the sessions of a removed account were left registered
sessions_of_none(session_map, username) == {}

\* remove_user, the tokens of the sessions it invalidates with the account
sessions_of(session_map, username) ==
    { t \in DOMAIN session_map : session_map[t].username = username }

remove_user(admin_session_token, username, storage) ==
    LET call == [ op |-> "remove_user", token |-> admin_session_token,
                  username |-> username ]
        verified == sessions_after_verify(admin_session_token)
        result(ok, msg) == call @@ [ ok |-> ok, msg |-> msg, removed |-> {} ]
        cascade == sessions_of(verified, username)
    IN /\ IF ~is_admin_session(admin_session_token)
          THEN /\ ret' = result(FALSE, "Unauthorized access")
               /\ sessions' = verified
               /\ UNCHANGED users
          ELSE IF is_protected(username)
          THEN /\ ret' = result(FALSE, "Cannot remove admin user")
               /\ sessions' = verified
               /\ UNCHANGED users
          ELSE IF storage = "read fails"
          THEN /\ ret' = result(FALSE, << "Error removing user: ", E_read >>)
               /\ sessions' = verified
               /\ UNCHANGED users
          ELSE IF username \notin DOMAIN users
          THEN /\ ret' = result(FALSE, "User not found")
               /\ sessions' = verified
               /\ UNCHANGED users
          ELSE IF storage = "write fails"
          \* the sessions are deleted at lines 270-272, before the file is opened
          THEN /\ ret' = [ result(FALSE, << "Error removing user: ", E_write >>)
                             EXCEPT !.removed = cascade ]
               /\ sessions' = Without(verified, cascade)
               /\ UNCHANGED users
          ELSE /\ users' = Without(users, {username})
               /\ sessions' = Without(verified, cascade)
               /\ ret' = [ result(TRUE, "User removed successfully")
                             EXCEPT !.removed = cascade ]
       /\ UNCHANGED << tokenCtr, saltCtr, now, current_user >>
       /\ UNCHANGED << translatorVars, lexiconVars, frameVars >>

\* the test if the old password were not compared with the stored hash
old_password_any(username, old_password) == TRUE

\* change_password, the test of the old password: its hash under the stored
\* salt is the stored hash
old_password_matches(username, old_password) ==
    hash_password(old_password, users[username].salt) = users[username].password

change_password(session_token, old_password, new_password, storage) ==
    LET call == [ op |-> "change_password", token |-> session_token,
                  old_password |-> old_password, new_password |-> new_password ]
        result(ok, msg) == call @@ [ ok |-> ok, msg |-> msg ]
        username == sessions[session_token].username
        new_salt == generate_salt
    IN /\ sessions' = sessions_after_verify(session_token)
       /\ IF ~session_valid(session_token)
          THEN /\ ret' = result(FALSE, "Invalid session")
               /\ UNCHANGED << users, saltCtr >>
          ELSE IF validate_password(new_password) # PasswordIsValid
          THEN /\ ret' = result(FALSE, validate_password(new_password))
               /\ UNCHANGED << users, saltCtr >>
          ELSE IF storage = "read fails"
          THEN /\ ret' = result(FALSE, E_read)
               /\ UNCHANGED << users, saltCtr >>
          ELSE IF username \notin DOMAIN users
          THEN /\ ret' = result(FALSE, "User not found")
               /\ UNCHANGED << users, saltCtr >>
          ELSE IF ~old_password_matches(username, old_password)
          THEN /\ ret' = result(FALSE, "Invalid old password")
               /\ UNCHANGED << users, saltCtr >>
          ELSE IF storage = "write fails"
          THEN /\ ret' = result(FALSE, E_write)
               /\ UNCHANGED << users, saltCtr >>
          ELSE /\ saltCtr < MaxSalts
               /\ saltCtr' = saltCtr + 1
               /\ users' = [ users EXCEPT ![username] =
                               [ @ EXCEPT !.password = hash_password(new_password, new_salt),
                                          !.salt = new_salt ] ]
               /\ ret' = result(TRUE, "Password changed successfully")
       /\ UNCHANGED << tokenCtr, now, current_user >>
       /\ UNCHANGED << translatorVars, lexiconVars, frameVars >>

\* add_user as far as line 243: the session is verified, the password
\* validated, the file read into auth_data and the account put into auth_data;
\* the file is not written yet
add_user_read(c, admin_session_token, new_username, new_password, role) ==
    LET call == [ op |-> "add_user", username |-> new_username ]
        salt == generate_salt
        new_user == [ username |-> new_username,
                      password |-> hash_password(new_password, salt),
                      salt |-> salt, role |-> role ]
    IN /\ pending[c].auth.pc = "idle"
       /\ sessions' = sessions_after_verify(admin_session_token)
       /\ IF ~is_admin_session(admin_session_token)
          THEN /\ pending' = [ pending EXCEPT ![c].auth =
                                 call @@ [ pc |-> "done", ok |-> FALSE,
                                           msg |-> "Unauthorized access" ] ]
               /\ UNCHANGED saltCtr
          ELSE IF validate_password(new_password) # PasswordIsValid
          THEN /\ pending' = [ pending EXCEPT ![c].auth =
                                 call @@ [ pc |-> "done", ok |-> FALSE,
                                           msg |-> validate_password(new_password) ] ]
               /\ UNCHANGED saltCtr
          ELSE IF new_username \in DOMAIN users
          THEN /\ pending' = [ pending EXCEPT ![c].auth =
                                 call @@ [ pc |-> "done", ok |-> FALSE,
                                           msg |-> "Username already exists" ] ]
               /\ UNCHANGED saltCtr
          ELSE /\ saltCtr' = saltCtr + 1
               /\ pending' = [ pending EXCEPT ![c].auth =
                                 call @@ [ pc |-> "write", read |-> users,
                                           auth_data |-> users @@ (new_username :> new_user) ] ]
       /\ UNCHANGED << users, tokenCtr, now, current_user, wrapper, ret >>
       /\ UNCHANGED << translatorVars, lexiconVars >>

\* the file content if the account were put into the file as it is at the
\* moment of writing
dumped_under_lock(c) ==
    users @@ (pending[c].auth.username :>
                 pending[c].auth.auth_data[pending[c].auth.username])

\* json.dump(auth_data, f): the file becomes the caller's auth_data
dumped(c) == pending[c].auth.auth_data

\* add_user, lines 245-247: the file is opened for writing and auth_data dumped
add_user_write(c) ==
    /\ pending[c].auth.pc = "write"
    /\ users' = dumped(c)
    /\ pending' = [ pending EXCEPT ![c].auth =
                      [ op |-> "add_user", username |-> pending[c].auth.username,
                        read |-> pending[c].auth.read,
                        auth_data |-> pending[c].auth.auth_data,
                        pc |-> "done", ok |-> TRUE,
                        msg |-> "User added successfully" ] ]
    /\ UNCHANGED << sessions, tokenCtr, saltCtr, now, current_user, wrapper, ret >>
    /\ UNCHANGED << translatorVars, lexiconVars >>

\* the instants the clock is looked at: the start, and each multiple of a
\* session's lifetime with the hour after it
ClockInstants ==
    { t \in 0..MaxNow : t = 0 \/ (t >= SessionHours /\ t % SessionHours \in { 0, 1 }) }

\* the clock moves on to a later instant
Tick ==
    /\ \E t \in ClockInstants :
          /\ t > now
          /\ now' = t
    /\ UNCHANGED << users, sessions, tokenCtr, saltCtr, current_user, ret >>
    /\ UNCHANGED << translatorVars, lexiconVars, frameVars >>

-----------------------------------------------------------------------------
(* main.py: login and logout of the menu                                   *)

\* the truth value `if` gives the tuple verify_credentials returns: a tuple is
\* false only when it is empty
Truthy(result) == Len(result) > 0

S_cancel == <<"c","a","n","c","e","l">>

\* login, what it does to the managers and the interface; the tuple verify_credentials returns is tested and dropped, so the
\* token in it is kept nowhere (ret.token records which one it was)
login_body(username, password) ==
    LET result == credentials_result(username, password)
        call == [ op |-> "login", username |-> username, password |-> password,
                  token |-> IF Lower(username) = S_cancel THEN NoToken ELSE result[2] ]
    IN IF Lower(username) = S_cancel
       THEN /\ ret' = call @@ [ ok |-> FALSE, called |-> FALSE, verified |-> FALSE ]
            /\ UNCHANGED authVars
            /\ UNCHANGED << translatorVars, lexiconVars >>
       ELSE /\ credentials_effect(username, password)
            /\ IF Truthy(result)
               THEN /\ current_user' = username
                    /\ ret' = call @@ [ ok |-> TRUE, called |-> TRUE,
                                        verified |-> result[1] ]
               ELSE /\ UNCHANGED current_user
                    /\ ret' = call @@ [ ok |-> FALSE, called |-> TRUE,
                                        verified |-> result[1] ]
            /\ UNCHANGED << users, saltCtr, now >>
            /\ UNCHANGED << translatorVars, lexiconVars >>

\* login, called from the menu
login(username, password) ==
    /\ login_body(username, password)
    /\ UNCHANGED frameVars

\* attempts = 3
LoginAttempts == 3

\* a handler under @require_auth is called: the wrapper starts with its
\* attempts; prompts counts the logins it has asked for, refused those that
\* were cancelled or for which verify_credentials reported a failure
require_auth_enter ==
    /\ wrapper.pc \in { "idle", "returned" }
    /\ wrapper' = [ pc |-> "loop", attempts |-> LoginAttempts, prompts |-> 0,
                    refused |-> 0, invoked |-> FALSE ]
    /\ UNCHANGED << pending, ret >>
    /\ UNCHANGED << translatorVars, authVars, lexiconVars >>

\* one round of the while loop: the login prompt, and what follows it up to
\* the next prompt or the return
require_auth_prompt(username, password) ==
    /\ wrapper.pc = "loop"
    /\ wrapper.attempts > 0 /\ current_user = None
    /\ login_body(username, password)
    /\ LET asked == [ wrapper EXCEPT
                        !.prompts = @ + 1,
                        !.refused = IF ret'.verified THEN @ ELSE @ + 1 ]
       IN wrapper' =
            IF ~ret'.ok
            THEN \* attempts -= 1, then continue or return None
                 IF wrapper.attempts - 1 > 0
                 THEN [ asked EXCEPT !.attempts = @ - 1 ]
                 ELSE [ asked EXCEPT !.attempts = @ - 1, !.pc = "returned" ]
            ELSE \* break, then the test of current_user after the loop
                 [ asked EXCEPT !.pc = "returned", !.invoked = current_user' # None ]
    /\ UNCHANGED pending

\* the loop is not entered: the test of current_user after it, and the handler
require_auth_pass ==
    /\ wrapper.pc = "loop"
    /\ ~(wrapper.attempts > 0 /\ current_user = None)
    /\ wrapper' = [ wrapper EXCEPT !.pc = "returned", !.invoked = current_user # None ]
    /\ UNCHANGED << pending, ret >>
    /\ UNCHANGED << translatorVars, authVars, lexiconVars >>

\* logout: self.current_user is set to None, and nothing else
logout ==
    /\ current_user # None
    /\ current_user' = None
    /\ ret' = [ op |-> "logout" ]
    /\ UNCHANGED << users, sessions, tokenCtr, saltCtr, now >>
    /\ UNCHANGED << translatorVars, lexiconVars, frameVars >>

-----------------------------------------------------------------------------
(* dictionary_manager.py                                                   *)

MaxClock == 1

MaxWrites == 2

\* self.prefix_map
prefix_map ==
    ( "1" :> { <<"z","z","'">>, <<"p","h","'">>, <<"x","a","'">>,
               <<"v","o","r","'">>, <<"m","i","i","'">> } )
    @@ ( "2" :> { <<"x","e","l","'">> } )
    @@ ( "3" :> { <<"v","o","r","'">> } )
    @@ ( "4" :> { <<"m","i","i","'">> } )
    @@ ( "5" :> {} )

\* self.valid_consonants
valid_consonants == { <<"x">>, <<"t","h">>, <<"k","'">>, <<"z","z">>,
                      <<"p","h">>, <<"r","'">> }

\* the test if every word passed it
validate_phonology_any(word) == TRUE

\* validate_phonology: TRUE when the word holds one of the consonant groups
validate_phonology(word) == \E cons \in valid_consonants : Contains(word, cons)

\* validate_word: "ok", "invalid" for a (False, message) result, "KeyError"
\* when prefix_map has no such category
validate_word(xelthor, category) ==
    IF ~validate_phonology(xelthor) THEN "invalid"
    ELSE IF category = "5"
         THEN (IF Len(xelthor) > 4 THEN "invalid" ELSE "ok")
    ELSE IF category \notin DOMAIN prefix_map THEN "KeyError"
    ELSE IF \E prefix \in prefix_map[category] : StartsWith(xelthor, prefix)
         THEN "ok"
    ELSE "invalid"

\* validate_word called for itself
validate_word_call(xelthor, category) ==
    /\ ret' = [ op |-> "validate_word", xelthor |-> xelthor, category |-> category,
                result |-> validate_word(xelthor, category) ]
    /\ UNCHANGED << translatorVars, authVars, lexiconVars, frameVars >>

D_dance == <<"d","a","n","c","e">>
D_god == <<"g","o","d">>
D_song == <<"s","o","n","g">>
D_zzphi == <<"z","z","'","p","h","i">>
D_vorshnoo == <<"v","o","r","'","s","h","n","o","o">>
D_zzlar == <<"z","z","'","l","a","r">>
D_lar == <<"l","a","r">>
D_zzt == <<"z","z","t">>

D_xbrace == <<"x","{">>
D_goodday == <<"g","o","o","d"," ","d","a","y">>

\* xelthor_dictionary.py as the repository holds it (the 'prefixes' and
\* 'tones' sections, which no call changes, are left out)
initial_dictionary ==
    [ vocabulary |-> (D_dance :> D_zzphi) @@ (D_god :> D_vorshnoo),
      special_phrases |-> << >> ]

\* read_dictionary, what it returns when the file cannot be read
default_dictionary == [ vocabulary |-> << >>, special_phrases |-> << >> ]

\* write_dictionary, line 127: the text str(dictionary) is reformatted by
\* putting a line break after every "{", before every "}" and inside every
\* ", '"; TRUE when that puts a line break inside the literal of this string
\* (repr quotes a string with ' in it by ", unless it holds a " as well)
format_breaks(string) ==
    \/ Contains(string, <<"{">>)
    \/ Contains(string, <<"}">>)
    \/ (Contains(string, <<",", " ", "'">>) /\ ~Contains(string, <<"\"">>))

\* read_dictionary, ast.literal_eval on the text write_dictionary wrote for
\* `written`: it fails when a string literal has a line break in it
literal_eval_ok(written) ==
    /\ \A k \in DOMAIN written.vocabulary :
          ~format_breaks(k) /\ ~format_breaks(written.vocabulary[k])
    /\ \A k \in DOMAIN written.special_phrases :
          ~format_breaks(k) /\ ~format_breaks(written.special_phrases[k])

\* the content of a dictionary file: `dictionary` and the backups hold the
\* dictionary whose text was written, read_file is what reading it gives
read_file(written) ==
    IF literal_eval_ok(written) THEN written ELSE default_dictionary

\* read_dictionary
read_dictionary == read_file(dictionary)

\* create_backup: the file is copied under a name made of the current second
create_backup == backups' = [ t \in DOMAIN backups \cup {clock} |->
                                 IF t = clock THEN dictionary ELSE backups[t] ]

\* write_dictionary: the backup, then the new content
write_dictionary(new_dictionary) ==
    /\ writes < MaxWrites
    /\ writes' = writes + 1
    /\ create_backup
    /\ dictionary' = new_dictionary

\* a call that returns without writing
no_write == UNCHANGED << dictionary, backups, writes >>

\* read_dictionary on a dictionary file that does as StorageOutcomes says:
\* when open(..., 'r') raises, the except branch returns the default
read_dictionary_on(storage) ==
    IF storage = "read fails" THEN default_dictionary ELSE read_dictionary

\* write_dictionary on such a file: the backup is made before the file is
\* opened for writing, and open(..., 'w') that raises leaves the file as it is
write_dictionary_on(new_dictionary, storage) ==
    IF storage = "write fails"
    THEN create_backup /\ UNCHANGED << dictionary, writes >>
    ELSE write_dictionary(new_dictionary)

\* write_dictionary, what it returns
write_result(storage) == storage # "write fails"

\* the second of the minute at which the dictionary manager's clock is 0
StartSecond == 9

DigitSeq == << "0", "1", "2", "3", "4", "5", "6", "7", "8", "9" >>

\* the name if the second were written without a leading zero
strftime_unpadded(t) ==
    LET second == (StartSecond + t) % 60
    IN IF second < 10 THEN << DigitSeq[second + 1] >>
       ELSE << DigitSeq[(second \div 10) + 1], DigitSeq[(second % 10) + 1] >>

\* create_backup, the name of the backup made at clock t: strftime writes
\* every field of '%Y%m%d_%H%M%S' with a fixed number of digits; the name is
\* modelled by its seconds field, the other fields and the text around them
\* being the same in every name
strftime(t) ==
    LET second == (StartSecond + t) % 60
    IN << DigitSeq[(second \div 10) + 1], DigitSeq[(second % 10) + 1] >>

\* the place of a character in the order Python compares strings by
Ord(c) == CHOOSE i \in 1..Len(DigitSeq) : DigitSeq[i] = c

RECURSIVE StrLess(_, _)
\* a < b, for strings
StrLess(a, b) ==
    IF a = <<>> THEN b # <<>>
    ELSE IF b = <<>> THEN FALSE
    ELSE IF Head(a) = Head(b) THEN StrLess(Tail(a), Tail(b))
    ELSE Ord(Head(a)) < Ord(Head(b))

RECURSIVE SetToSeq(_)
SetToSeq(S) ==
    IF S = {} THEN <<>>
    ELSE LET x == CHOOSE y \in S : TRUE IN << x >> \o SetToSeq(S \ {x})

\* sorted(names)
sorted(names) == SortSeq(SetToSeq(names), StrLess)

\* list_backups: the names in the backup directory, sorted
list_backups ==
    /\ ret' = [ op |-> "list_backups",
                names |-> sorted({ strftime(t) : t \in DOMAIN backups }) ]
    /\ no_write
    /\ UNCHANGED clock
    /\ UNCHANGED << translatorVars, authVars, frameVars >>

\* restore_backup: when the named file exists it is copied over the
\* dictionary file
restore_backup(backup_file) ==
    LET call == [ op |-> "restore_backup", name |-> backup_file ]
        exists == \E t \in DOMAIN backups : strftime(t) = backup_file
        found == CHOOSE t \in DOMAIN backups : strftime(t) = backup_file
    IN /\ IF exists
          THEN /\ dictionary' = backups[found]
               /\ ret' = call @@ [ ok |-> TRUE ]
               /\ UNCHANGED << backups, writes >>
          ELSE /\ ret' = call @@ [ ok |-> FALSE ]
               /\ no_write
       /\ UNCHANGED clock
       /\ UNCHANGED << translatorVars, authVars, frameVars >>

AddEnglish == { D_dance, D_song, W_star }
AddXelthor == { D_zzlar, X_xelka, D_lar, D_zzt }
AddCategory == { "1", "2", "5", "9" }

\* the test if every key were taken to be in the map
has_key_always(map, key) == TRUE

\* `key in map`
has_key(map, key) == key \in DOMAIN map

\* map[key] = value
Put(map, key, value) ==
    [ k \in DOMAIN map \cup {key} |-> IF k = key THEN value ELSE map[k] ]

add_word(english, xelthor, category, storage) ==
    LET call == [ op |-> "add_word", english |-> english, xelthor |-> xelthor,
                  category |-> category ]
        d == read_dictionary_on(storage)
    IN /\ IF validate_word(xelthor, category) # "ok"
          THEN /\ ret' = call @@ [ ok |-> FALSE ]
               /\ no_write
          ELSE IF has_key(d.vocabulary, english)
          THEN /\ ret' = call @@ [ ok |-> FALSE ]
               /\ no_write
          ELSE /\ write_dictionary_on([ d EXCEPT !.vocabulary =
                                        Put(d.vocabulary, english, xelthor) ], storage)
               /\ ret' = call @@ [ ok |-> write_result(storage) ]
       /\ UNCHANGED clock
       /\ UNCHANGED << translatorVars, authVars, frameVars >>

edit_word(english, new_xelthor, storage) ==
    LET call == [ op |-> "edit_word", english |-> english, xelthor |-> new_xelthor ]
        d == read_dictionary_on(storage)
    IN /\ IF has_key(d.vocabulary, english)
          THEN /\ write_dictionary_on([ d EXCEPT !.vocabulary =
                                        Put(d.vocabulary, english, new_xelthor) ], storage)
               /\ ret' = call @@ [ ok |-> write_result(storage) ]
          ELSE /\ ret' = call @@ [ ok |-> FALSE ]
               /\ no_write
       /\ UNCHANGED clock
       /\ UNCHANGED << translatorVars, authVars, frameVars >>

remove_word(english, storage) ==
    LET call == [ op |-> "remove_word", english |-> english ]
        d == read_dictionary_on(storage)
    IN /\ IF has_key(d.vocabulary, english)
          THEN /\ write_dictionary_on([ d EXCEPT !.vocabulary =
                                        Without(d.vocabulary, {english}) ], storage)
               /\ ret' = call @@ [ ok |-> write_result(storage) ]
          ELSE /\ ret' = call @@ [ ok |-> FALSE ]
               /\ no_write
       /\ UNCHANGED clock
       /\ UNCHANGED << translatorVars, authVars, frameVars >>

add_special_phrase(english, xelthor, storage) ==
    LET call == [ op |-> "add_special_phrase", english |-> english,
                  xelthor |-> xelthor ]
        d == read_dictionary_on(storage)
    IN /\ write_dictionary_on([ d EXCEPT !.special_phrases =
                                Put(d.special_phrases, english, xelthor) ], storage)
       /\ ret' = call @@ [ ok |-> write_result(storage) ]
       /\ UNCHANGED clock
       /\ UNCHANGED << translatorVars, authVars, frameVars >>

remove_special_phrase(english, storage) ==
    LET call == [ op |-> "remove_special_phrase", english |-> english ]
        d == read_dictionary_on(storage)
    IN /\ IF has_key(d.special_phrases, english)
          THEN /\ write_dictionary_on([ d EXCEPT !.special_phrases =
                                        Without(d.special_phrases, {english}) ], storage)
               /\ ret' = call @@ [ ok |-> write_result(storage) ]
          ELSE /\ ret' = call @@ [ ok |-> FALSE ]
               /\ no_write
       /\ UNCHANGED clock
       /\ UNCHANGED << translatorVars, authVars, frameVars >>

\* self.default_prefix
default_prefix ==
    ( "1" :> <<"z","z","'">> ) @@ ( "2" :> <<"x","e","l","'">> )
    @@ ( "3" :> <<"v","o","r","'">> ) @@ ( "4" :> <<"m","i","i","'">> )
    @@ ( "5" :> << >> )

\* [x.strip().lower() for x in row]
CleanRow(row) == [ i \in 1..Len(row) |-> Lower(Strip(row[i], Whitespace)) ]

\* an error of a batch: the row's number and the message after "Row n: "
RowError(row_num, msg, what) == [ row |-> row_num, msg |-> msg, what |-> what ]

\* batch_add_words, the loop over the rows from row_num on: the dictionary
\* as changed in memory, success_count and errors
RECURSIVE batch_words_loop(_, _, _, _, _)
batch_words_loop(rows, row_num, d, success_count, errors) ==
    IF row_num > Len(rows)
    THEN [ dictionary |-> d, success_count |-> success_count, errors |-> errors ]
    ELSE
      LET row == rows[row_num]
          fields == CleanRow(row)
          english == fields[1]
          xelthor == fields[2]
          \* the keys of prefix_map are strings of one character
          known == Len(fields[3]) = 1 /\ fields[3][1] \in DOMAIN prefix_map
          category == fields[3][1]
          fail(msg, what) ==
              batch_words_loop(rows, row_num + 1, d, success_count,
                               Append(errors, RowError(row_num, msg, what)))
          has_valid_prefix ==
              \E prefix \in prefix_map[category] : StartsWith(xelthor, prefix)
          stored == IF category = "5" \/ has_valid_prefix THEN xelthor
                    ELSE default_prefix[category] \o xelthor
      IN IF Len(row) # 3
         THEN fail("Invalid format. Expected 3 columns (english,xelthor,category)",
                   << >>)
         ELSE IF ~known
         THEN fail("Invalid category. Must be 1-5", fields[3])
         ELSE IF has_key(d.vocabulary, english)
         THEN fail("Word already exists", english)
         ELSE IF category = "5" /\ Len(xelthor) > 4
         THEN fail("Connector too long (max 4 characters)", xelthor)
         ELSE batch_words_loop(rows, row_num + 1,
                  [ d EXCEPT !.vocabulary = Put(d.vocabulary, english, stored) ],
                  success_count + 1, errors)

batch_add_words(rows, storage) ==
    LET done == batch_words_loop(rows, 1, read_dictionary_on(storage), 0, << >>)
    IN /\ IF done.success_count > 0
          THEN write_dictionary_on(done.dictionary, storage)
          ELSE no_write
       /\ ret' = [ op |-> "batch_add_words", rows |-> rows,
                   success_count |-> done.success_count, errors |-> done.errors ]
       /\ UNCHANGED clock
       /\ UNCHANGED << translatorVars, authVars, frameVars >>

\* batch_add_special_phrases, the loop over the rows from row_num on
RECURSIVE batch_phrases_loop(_, _, _, _, _)
batch_phrases_loop(rows, row_num, d, success_count, errors) ==
    IF row_num > Len(rows)
    THEN [ dictionary |-> d, success_count |-> success_count, errors |-> errors ]
    ELSE
      LET row == rows[row_num]
          fields == CleanRow(row)
          english == fields[1]
          xelthor == fields[2]
          fail(msg, what) ==
              batch_phrases_loop(rows, row_num + 1, d, success_count,
                                 Append(errors, RowError(row_num, msg, what)))
      IN IF Len(row) # 2
         THEN fail("Invalid format. Expected 2 columns (english,xelthor)", << >>)
         ELSE IF has_key(d.special_phrases, english)
         THEN fail("Phrase already exists", english)
         ELSE batch_phrases_loop(rows, row_num + 1,
                  [ d EXCEPT !.special_phrases =
                        Put(d.special_phrases, english, xelthor) ],
                  success_count + 1, errors)

batch_add_special_phrases(rows, storage) ==
    LET done == batch_phrases_loop(rows, 1, read_dictionary_on(storage), 0, << >>)
    IN /\ IF done.success_count > 0
          THEN write_dictionary_on(done.dictionary, storage)
          ELSE no_write
       /\ ret' = [ op |-> "batch_add_special_phrases", rows |-> rows,
                   success_count |-> done.success_count, errors |-> done.errors ]
       /\ UNCHANGED clock
       /\ UNCHANGED << translatorVars, authVars, frameVars >>

\* add_word as far as line 84: the form is validated, the file read and the
\* word put into the dictionary in memory; the file is not written yet
add_word_read(c, english, xelthor, category) ==
    LET call == [ op |-> "add_word", english |-> english, xelthor |-> xelthor ]
        d == read_dictionary
    IN /\ pending[c].lexicon.pc = "idle"
       /\ IF validate_word(xelthor, category) # "ok" \/ has_key(d.vocabulary, english)
          THEN pending' = [ pending EXCEPT ![c].lexicon =
                              call @@ [ pc |-> "done", ok |-> FALSE ] ]
          ELSE pending' = [ pending EXCEPT ![c].lexicon =
                              call @@ [ pc |-> "write", read |-> d,
                                        dictionary |-> [ d EXCEPT !.vocabulary =
                                            Put(d.vocabulary, english, xelthor) ] ] ]
       /\ UNCHANGED << wrapper, ret >>
       /\ UNCHANGED << translatorVars, authVars, lexiconVars >>

\* file.write(formatted_dict): the file becomes the caller's dictionary
written(c) == pending[c].lexicon.dictionary

\* add_word, line 85: write_dictionary(dictionary)
add_word_write(c) ==
    /\ pending[c].lexicon.pc = "write"
    /\ write_dictionary(written(c))
    /\ pending' = [ pending EXCEPT ![c].lexicon =
                      [ op |-> "add_word", english |-> pending[c].lexicon.english,
                        xelthor |-> pending[c].lexicon.xelthor,
                        read |-> pending[c].lexicon.read,
                        dictionary |-> pending[c].lexicon.dictionary,
                        pc |-> "done", ok |-> TRUE ] ]
    /\ UNCHANGED << clock, wrapper, ret >>
    /\ UNCHANGED << translatorVars, authVars >>

\* a second passes on the dictionary manager's clock
LexTick ==
    /\ clock < MaxClock
    /\ clock' = clock + 1
    /\ UNCHANGED << dictionary, backups, writes, ret >>
    /\ UNCHANGED << translatorVars, authVars, frameVars >>

-----------------------------------------------------------------------------
(* main.py: the add-word handler of the dictionary menu                    *)

\* the methods XelthorTranslator defines in translator.py
TranslatorMethods == { "apply_grammar_rules", "apply_tense", "translate_to_xelthor",
                       "translate_to_english", "get_vocabulary" }

\* add_new_word of the menu: the inputs are checked, then the word is handed
\* to self.translator.add_new_word, a method the class does not define
menu_add_new_word(typed_english, category, typed_xelthor) ==
    LET english == Lower(typed_english)
        xelthor == Lower(typed_xelthor)
        call == [ op |-> "menu_add_new_word", english |-> english,
                  xelthor |-> xelthor, category |-> category ]
        format_ok == IF category = "5" THEN Len(xelthor) <= 4
                     ELSE \E prefix \in prefix_map[category] : StartsWith(xelthor, prefix)
    IN /\ IF english \in DOMAIN eng_to_xel
          THEN ret' = call @@ [ outcome |-> "exists" ]
          ELSE IF category \notin { "1", "2", "3", "4", "5" }
          THEN ret' = call @@ [ outcome |-> "invalid category" ]
          ELSE /\ format_ok
               /\ "add_new_word" \notin TranslatorMethods
               /\ ret' = call @@ [ outcome |-> "AttributeError" ]
       /\ UNCHANGED << translatorVars, authVars, lexiconVars, frameVars >>

\* the translate menu entry, present tense, on one English word
lex_translate(english) ==
    /\ ret' = [ op |-> "translate_to_xelthor", text |-> english,
                out |-> translate_to_xelthor(english, "present") ]
    /\ UNCHANGED << translatorVars, authVars, lexiconVars, frameVars >>

-----------------------------------------------------------------------------
(* The specifications.                                                     *)

TranslatorIdle ==
    /\ text = <<>> /\ tense = "present" /\ out = None /\ back = None
    /\ phase = "idle"

AuthInit ==
    /\ users = (N_admin :> default_admin)
    /\ sessions = << >>
    /\ tokenCtr = 0
    /\ saltCtr = 0
    /\ now = 0
    /\ current_user = None

LexiconInit ==
    /\ dictionary = initial_dictionary
    /\ backups = << >>
    /\ writes = 0
    /\ clock = 0

NoCall == [ op |-> "none" ]

\* no caller is inside a store call, no wrapper is running
FramesIdle ==
    /\ pending = [ c \in Callers |-> [ auth |-> Idle, lexicon |-> Idle ] ]
    /\ wrapper = Idle

\* the credential and session manager: sessions and accounts, on an auth
\* file that opens
Init ==
    /\ TranslatorIdle /\ AuthInit /\ LexiconInit
    /\ FramesIdle
    /\ ret = NoCall

Next ==
    \/ \E u \in TypedNames, p \in Passwords : verify_credentials(u, p)
    \/ \E t \in PresentableTokens : verify_session(t)
    \/ \E t \in PresentableTokens : invalidate_session(t)
    \/ \E t \in PresentableTokens, u \in Usernames, p \in NewPasswords, r \in Roles :
          add_user(t, u, p, r, "ok")
    \/ \E t \in PresentableTokens, u \in Usernames : remove_user(t, u, "ok")
    \/ Tick

Spec == Init /\ [][Next]_vars

\* the accounts: the calls that read or write the account map, on an auth
\* file that opens
PasswordNext ==
    \/ \E u \in TypedNames, p \in Passwords : verify_credentials(u, p)
    \/ \E t \in PresentableTokens, u \in Usernames, p \in NewPasswords, r \in Roles :
          add_user(t, u, p, r, "ok")
    \/ \E t \in PresentableTokens, u \in Usernames : remove_user(t, u, "ok")
    \/ \E t \in PresentableTokens, o \in Passwords, p \in NewPasswords :
          change_password(t, o, p, "ok")
    \/ Tick

PasswordSpec == Init /\ [][PasswordNext]_vars

\* the accounts on an auth file that may fail to open
StorageNext ==
    \/ \E u \in TypedNames, p \in Passwords : verify_credentials(u, p)
    \/ \E t \in PresentableTokens, u \in Usernames, p \in NewPasswords, r \in Roles,
          s \in StorageOutcomes : add_user(t, u, p, r, s)
    \/ \E t \in PresentableTokens, u \in Usernames, s \in StorageOutcomes :
          remove_user(t, u, s)
    \/ \E t \in PresentableTokens, o \in Passwords, p \in NewPasswords,
          s \in StorageOutcomes : change_password(t, o, p, s)
    \/ Tick

StorageSpec == Init /\ [][StorageNext]_vars

\* the menu of main.py, which of the AuthManager calls only
\* verify_credentials, and offers the login only while nobody is logged in
MenuNext ==
    \/ \E u \in LoginNames, p \in Passwords : current_user = None /\ login(u, p)
    \/ logout
    \/ Tick

MenuSpec == Init /\ [][MenuNext]_vars

\* the handlers of the menu that are under @require_auth; the menu runs
\* nothing else while a wrapper is in its loop
GateNext ==
    \/ require_auth_enter
    \/ \E u \in LoginNames, p \in Passwords : require_auth_prompt(u, p)
    \/ require_auth_pass
    \/ wrapper.pc # "loop" /\ logout

GateSpec == Init /\ [][GateNext]_vars

\* the password rule on the passwords of RulePasswords
MaxVaried == 3

P_alllowercase1 == <<"a","l","l","l","o","w","e","r","c","a","s","e","1">>
P_ALLUPPERCASE1 == <<"A","L","L","U","P","P","E","R","C","A","S","E","1">>
P_NoDigitsHere == <<"N","o","D","i","g","i","t","s","H","e","r","e">>

\* one character of each kind the rule tells apart: a lowercase letter, an
\* uppercase letter, a digit and one that is none of these
RuleChars == { "a", "A", "1", "_" }

Filler(n) == [ i \in 1..n |-> "_" ]

\* the named passwords, and every choice of MaxVaried characters filled up
\* to one character less than, exactly, and one more than the least length
RulePasswords ==
    { P_short1, P_alllowercase1, P_ALLUPPERCASE1, P_NoDigitsHere, P_Valid123,
      P_admin123 }
    \cup { v \o Filler(n - MaxVaried) :
             v \in [ 1..MaxVaried -> RuleChars ],
             n \in (MinPasswordLen - 1)..(MinPasswordLen + 1) }

ValidatePassword ==
    /\ phase = "input"
    /\ out' = validate_password(text)
    /\ phase' = "validated"
    /\ UNCHANGED << text, tense, back, ret >>
    /\ UNCHANGED << authVars, lexiconVars, frameVars >>

RuleInit ==
    /\ text \in RulePasswords /\ tense = "present"
    /\ out = None /\ back = None /\ phase = "input"
    /\ AuthInit /\ LexiconInit
    /\ FramesIdle
    /\ ret = NoCall

RuleSpec == RuleInit /\ [][ValidatePassword]_vars

\* the translation engine on the texts of EngTexts and XelTexts
TranslateToXelthor ==
    /\ phase = "input"
    /\ out' = translate_to_xelthor(text, tense)
    /\ phase' = "to_xelthor"
    /\ UNCHANGED << text, tense, back, ret >>
    /\ UNCHANGED << authVars, lexiconVars, frameVars >>

TranslateToEnglish ==
    /\ phase = "input"
    /\ out' = translate_to_english(text)
    /\ phase' = "to_english"
    /\ UNCHANGED << text, tense, back, ret >>
    /\ UNCHANGED << authVars, lexiconVars, frameVars >>

\* the string translate_to_xelthor returned is handed to translate_to_english
TranslateBack ==
    /\ phase = "to_xelthor"
    /\ back' = translate_to_english(out)
    /\ phase' = "round_trip"
    /\ UNCHANGED << text, tense, out, ret >>
    /\ UNCHANGED << authVars, lexiconVars, frameVars >>

TranslateInit ==
    /\ \/ text \in EngTexts /\ tense \in TenseInputs
       \/ text \in XelTexts /\ tense = "present"
    /\ out = None /\ back = None /\ phase = "input"
    /\ AuthInit /\ LexiconInit
    /\ FramesIdle
    /\ ret = NoCall

TranslateNext == TranslateToXelthor \/ TranslateToEnglish \/ TranslateBack

TranslateSpec == TranslateInit /\ [][TranslateNext]_vars

\* the translation engine on arguments of any kind: the texts above, the
\* empty and the blank string, None and a number; the tenses above and a list
W_blank == <<" ", " ">>

OddTexts == { <<>>, W_blank, None, PyInt5 }

RobustInit ==
    /\ \/ text \in EngTexts \cup OddTexts /\ tense \in TenseInputs \cup { PyList }
       \/ text \in XelTexts /\ tense = "present"
    /\ out = None /\ back = None /\ phase = "input"
    /\ AuthInit /\ LexiconInit
    /\ FramesIdle
    /\ ret = NoCall

RobustNext == TranslateToXelthor \/ TranslateToEnglish

RobustSpec == RobustInit /\ [][RobustNext]_vars

\* the dictionary store, the add-word handler and the translator beside it
LexiconInitAll ==
    /\ TranslatorIdle /\ AuthInit /\ LexiconInit
    /\ FramesIdle
    /\ ret = NoCall

LexiconNext ==
    \/ \E e \in AddEnglish, x \in AddXelthor, c \in AddCategory : add_word(e, x, c, "ok")
    \/ \E e \in AddEnglish, x \in AddXelthor, c \in AddCategory :
          menu_add_new_word(e, c, x)
    \/ \E e \in AddEnglish : lex_translate(e)
    \/ LexTick

LexiconSpec == LexiconInitAll /\ [][LexiconNext]_vars

\* the dictionary store under its calls of one entry
StoreEnglish == { D_dance, D_song }

\* the forms and categories add_word is given: a verb, a form without one of
\* the consonant groups, a prefix of another category, a category there is
\* none of, and a connector with a brace in it
StoreForms == { << D_zzlar, "1" >>, << D_lar, "1" >>, << D_zzlar, "2" >>,
                << D_zzlar, "9" >>, << D_xbrace, "5" >> }

StoreNext ==
    \/ \E e \in StoreEnglish, f \in StoreForms : add_word(e, f[1], f[2], "ok")
    \/ \E e \in StoreEnglish : edit_word(e, D_zzlar, "ok")
    \/ \E e \in StoreEnglish : remove_word(e, "ok")
    \/ add_special_phrase(D_goodday, D_zzlar, "ok")
    \/ remove_special_phrase(D_goodday, "ok")
    \/ LexTick

StoreSpec == LexiconInitAll /\ [][StoreNext]_vars

\* the calls of one entry on a dictionary file that may fail to open
StoreStorageNext ==
    \/ \E e \in StoreEnglish, f \in StoreForms, s \in StorageOutcomes :
          add_word(e, f[1], f[2], s)
    \/ \E e \in StoreEnglish, s \in StorageOutcomes : edit_word(e, D_zzlar, s)
    \/ \E e \in StoreEnglish, s \in StorageOutcomes : remove_word(e, s)
    \/ \E s \in StorageOutcomes : add_special_phrase(D_goodday, D_zzlar, s)
    \/ \E s \in StorageOutcomes : remove_special_phrase(D_goodday, s)
    \/ LexTick

StoreStorageSpec == LexiconInitAll /\ [][StoreStorageNext]_vars

\* the dictionary store with its backups listed and restored
BackupNames == { strftime(t) : t \in 0..MaxClock } \cup { << "0", "0" >> }

BackupNext ==
    \/ \E e \in StoreEnglish : add_word(e, D_zzlar, "1", "ok")
    \/ \E e \in StoreEnglish : remove_word(e, "ok")
    \/ \E b \in BackupNames : restore_backup(b)
    \/ list_backups
    \/ LexTick

BackupSpec == LexiconInitAll /\ [][BackupNext]_vars

\* the dictionary store under the imports of CSV rows
MaxRows == 3

\* rows as csv.reader hands them over: a verb that needs its prefix put in
\* front, typed with a capital and a blank; a noun that has its prefix; a row
\* of two columns; a category there is none of; a word the dictionary
\* holds; a connector of five characters; a connector with a brace in it
R_song == << <<" ","S","o","n","g">>, <<"l","a","r">>, <<"1">> >>
R_star == << <<"s","t","a","r">>, <<"x","e","l","'","k","a">>, <<"2">> >>
R_short == << <<"b","a","d">>, <<"r","o","w">> >>
R_category == << <<"m","o","o","n">>, <<"x","e","l","'","m","u">>, <<"9">> >>
R_dance == << <<"d","a","n","c","e">>, <<"z","z","'","x">>, <<"1">> >>
R_long == << <<"a","n","d">>, <<"a","b","c","d","e">>, <<"5">> >>
R_brace == << <<"b","r","a","c","e">>, <<"x","{">>, <<"5">> >>

WordRows == { R_song, R_star, R_short, R_category, R_dance, R_long, R_brace }

\* rows of phrases: one of two columns, one of a single column
Q_goodday == << D_goodday, D_zzlar >>
Q_short == << D_goodday >>

PhraseRows == { Q_goodday, Q_short }

Batches(kinds) == UNION { [ 1..n -> kinds ] : n \in 1..MaxRows }

\* one import of words, into the dictionary as the repository holds it, and
\* imports of phrases after it
BatchNext ==
    \/ \E rows \in Batches(WordRows) : ret = NoCall /\ batch_add_words(rows, "ok")
    \/ \E rows \in Batches(PhraseRows) : batch_add_special_phrases(rows, "ok")
    \/ LexTick

BatchSpec == LexiconInitAll /\ [][BatchNext]_vars

\* two callers of the same managers, each with one add_user and one add_word
\* call; a call reads the file in one step and writes it in a later one, as
\* nothing in the code keeps another caller out in between
N_bob == <<"b","o","b">>

RaceNames == { N_alice, N_bob }

RaceWords == { << D_song, D_zzlar, "1" >>, << W_star, X_xelka, "2" >>,
               << D_dance, D_zzlar, "1" >>, << D_song, D_lar, "1" >> }

RaceNext ==
    \/ verify_credentials(N_admin, P_admin123)
    \/ \E c \in Callers, t \in PresentableTokens, u \in RaceNames, p \in NewPasswords :
          add_user_read(c, t, u, p, "user")
    \/ \E c \in Callers : add_user_write(c)
    \/ \E c \in Callers, w \in RaceWords : add_word_read(c, w[1], w[2], w[3])
    \/ \E c \in Callers : add_word_write(c)

RaceSpec == Init /\ [][RaceNext]_vars

\* the imports on a dictionary file that may fail to open, of rows that
\* succeed and a row that does not
StorageRows == { R_song, R_star, R_short }

BatchStorageNext ==
    \/ /\ ret = NoCall
       /\ \E rows \in Batches(StorageRows), s \in StorageOutcomes :
             batch_add_words(rows, s)
    \/ \E rows \in Batches(PhraseRows), s \in StorageOutcomes :
          batch_add_special_phrases(rows, s)
    \/ LexTick

BatchStorageSpec == LexiconInitAll /\ [][BatchStorageNext]_vars

\* validate_word on forms made of a prefix, or none, and a stem: stems with
\* and without one of the consonant groups, of up to 4 characters and longer
FormPrefixes == VerbPrefixes \cup { <<"x","e","l","'">>, << >> }

FormStems == { <<"s","o","r">>, <<"t","i","x">>, <<"j","e">>, <<"z","z">>,
               <<"k","a","a","n">>, <<"a","b","c","d","e">>, <<"p","h","o","n","e">> }

Forms5 == { p \o st : p \in FormPrefixes, st \in FormStems }

ValidateNext ==
    \E x \in Forms5, c \in DOMAIN prefix_map \cup { "9" } : validate_word_call(x, c)

ValidateSpec == LexiconInitAll /\ [][ValidateNext]_vars

\* the dictionary store under calls whose english is typed with and
\* without a capital
D_Dog == <<"D","o","g">>
D_dog == <<"d","o","g">>

R_Dog == << D_Dog, <<"z","z","'","x">>, <<"1">> >>

CaseEnglish == { D_Dog, D_dog, D_dance }

CaseNext ==
    \/ \E e \in CaseEnglish : add_word(e, D_zzlar, "1", "ok")
    \/ \E e \in CaseEnglish : edit_word(e, D_zzlar, "ok")
    \/ \E e \in CaseEnglish : remove_word(e, "ok")
    \/ \E rows \in Batches({ R_song, R_Dog }) : batch_add_words(rows, "ok")
    \/ LexTick

CaseSpec == LexiconInitAll /\ [][CaseNext]_vars

-----------------------------------------------------------------------------
(* The claims.                                                             *)

\* the tokens of an English text, lowercased and stripped of . , ! ?
CleanTokens(t) ==
    LET ws == Split(Strip(Lower(t), Whitespace))
    IN [i \in 1..Len(ws) |-> Strip(ws[i], Punctuation)]

Bracketed(w) == <<"[">> \o w \o <<"]">>

\* the translated form of every token of an English text
Forms(t) ==
    [i \in 1..Len(CleanTokens(t)) |->
        IF CleanTokens(t)[i] \in DOMAIN eng_to_xel
        THEN eng_to_xel[CleanTokens(t)[i]]
        ELSE Bracketed(CleanTokens(t)[i])]

\* the index of the first word with a verb prefix, 0 when there is none
FirstVerb(ws) ==
    IF \E i \in 1..Len(ws) : HasVerbPrefix(ws[i])
    THEN SetMin({i \in 1..Len(ws) : HasVerbPrefix(ws[i])})
    ELSE 0

After(ws, v) == SubSeq(ws, v + 1, Len(ws))

Before(ws, v) == SubSeq(ws, 1, v - 1)

WithTense(ws, t) ==
    [i \in 1..Len(ws) |-> IF HasVerbPrefix(ws[i]) THEN apply_tense(ws[i], t) ELSE ws[i]]

\* C1: a login for which verify_credentials reports failure returns False
\* and leaves current_user None.
C1_LoginOnlyOnSuccess ==
    (ret.op = "login" /\ ret.called /\ ~ret.verified)
        => (~ret.ok /\ current_user = None)

\* C2: after add_word(w, x, category) has succeeded, translate_to_xelthor(w)
\* in the present tense returns exactly x.
C2_AddedWordTranslates ==
    (ret.op = "add_word" /\ ret.ok)
        => translate_to_xelthor(ret.english, "present") = ret.xelthor

\* C3: translate_to_xelthor of at least 3 tokens, the first of which with a
\* verb-prefixed translation is at index v, returns the verb, then the tokens
\* after v, then the tokens before v.
C3_VerbFirstOrder ==
    phase = "to_xelthor" =>
        LET forms == Forms(text)
            v == FirstVerb(forms)
        IN (Len(forms) >= 3 /\ v # 0) =>
              out = Join(WithTense(<< forms[v] >> \o After(forms, v) \o Before(forms, v),
                                   tense))

\* C4: translate_to_english of at least 3 tokens, the first of which with a
\* verb prefix is at index v, returns the translations of the tokens after v,
\* then the verb's, then those of the tokens before v (stated for the texts
\* in which no "will" is put in front, so that the translations line up
\* with the tokens).
C4_VerbMiddleOrder ==
    phase = "to_english" =>
        LET words == Split(Strip(text, Whitespace))
            v == FirstVerb(words)
            eng == english_pass(words, <<>>)
        IN (Len(words) >= 3 /\ v # 0 /\ Len(eng) = Len(words)) =>
              out = Join(After(eng, v) \o << eng[v] >> \o Before(eng, v))

\* C5 as claimed: for every vocabulary entry (e, x) with e a single word,
\* translate_to_english(translate_to_xelthor(e, present)) returns e.
C5_RoundTripEveryEntry ==
    (phase = "round_trip" /\ text \in VocabularyKeys /\ tense = "present")
        => back = text

\* no later entry of the vocabulary has the Xel'thor form of e
LastWriter(e) ==
    \A i, j \in 1..Len(Vocabulary) :
        (Vocabulary[i][1] = e /\ Vocabulary[j][2] = Vocabulary[i][2]) => j <= i

\* C5 as amended: for every vocabulary entry (e, x) with e a single word
\* and no later entry with the same Xel'thor form x,
\* translate_to_english(translate_to_xelthor(e, present)) returns e.
C5_RoundTripLastWriter ==
    (phase = "round_trip" /\ text \in VocabularyKeys /\ tense = "present"
        /\ LastWriter(text))
        => back = text

\* "share", whose form ph'sor is also that of the earlier "communicate",
\* has made the round trip
C5_Witness ==
    /\ phase = "round_trip" /\ tense = "present"
    /\ text = <<"s","h","a","r","e">>
    /\ out = <<"p","h","'","s","o","r">>
    /\ back = text

C6_Wording(word, t) ==
    CASE t = "past" -> (IF EndsWith(word, S_ing) THEN S_was ELSE S_did) \o <<" ">> \o word
      [] t = "future" -> S_will \o <<" ">> \o word
      [] OTHER -> word

\* C6: translate_to_english of the single token x + s, for a form x of the
\* reverse map and a non-empty tense suffix s, returns x's English word with
\* the wording of that tense: "did " or "was " before it for the past,
\* "will" before it for the future, the bare word for the eternal.
C6_TenseWordingOnce ==
    phase = "to_english" =>
        \A x \in DOMAIN xel_to_eng, i \in 1..Len(tones) :
            (tones[i][2] # <<>> /\ text = x \o tones[i][2])
                => out = C6_Wording(xel_to_eng[x], tones[i][1])

\* C7: a token w that the English-to-Xel'thor map does not hold comes out
\* of translate_to_xelthor as "[w]" in the token's position, and
\* translate_to_english of "[w]" returns w.
C7_UnknownWordFallback ==
    /\ phase \in { "to_xelthor", "round_trip" } =>
          \A i \in 1..Len(CleanTokens(text)) :
              CleanTokens(text)[i] \notin DOMAIN eng_to_xel =>
                  /\ i <= Len(Split(out))
                  /\ Split(out)[i] = Bracketed(CleanTokens(text)[i])
    /\ (phase = "round_trip" /\ Len(CleanTokens(text)) = 1
          /\ CleanTokens(text)[1] \notin DOMAIN eng_to_xel)
          => (out = Bracketed(CleanTokens(text)[1]) /\ back = CleanTokens(text)[1])

\* a step of the credential manager that is the call `op`: every call
\* leaves the clock alone, and the clock's step leaves ret alone
IsCall(op) == now' = now /\ ret'.op = op

C8_Step ==
    IsCall("verify_credentials") =>
        LET u == ret'.username
            p == ret'.password
            t == ret'.token
            matches == /\ u \in DOMAIN users
                       /\ hash_password(p, users[u].salt) = users[u].password
        IN /\ ret'.ok <=> matches
           /\ (u = N_admin /\ p = P_admin123 /\ users = (N_admin :> default_admin))
                 => ret'.ok
           /\ ret'.ok =>
                 /\ t # NoToken /\ t \notin 1..tokenCtr /\ t \notin DOMAIN sessions
                 /\ DOMAIN sessions' = DOMAIN sessions \cup {t}
                 /\ \A s \in DOMAIN sessions : sessions'[s] = sessions[s]
                 /\ sessions'[t] = [ username |-> u, role |-> users[u].role,
                                     expires |-> now + 24 ]
           /\ ~ret'.ok => (t = NoToken /\ sessions' = sessions)

\* C8: verify_credentials(u, p) succeeds exactly when account u exists and
\* its stored hash is the hash of p under its stored salt (so admin with the
\* default password succeeds on the bootstrapped store); a success registers
\* exactly one session, under a token not in use before, with username u,
\* the account's role and an expiry 24 hours after now; a failure returns
\* (False, None) and leaves the session map as it was.
C8_VerifyCredentials == [][C8_Step]_vars

\* admin has logged in with the default password and holds a session
C8_Witness ==
    /\ ret.op = "verify_credentials" /\ ret.ok
    /\ ret.username = N_admin /\ ret.password = P_admin123
    /\ ret.token \in DOMAIN sessions
    /\ sessions[ret.token].role = "admin"

C9_Step ==
    /\ IsCall("verify_session") =>
          LET t == ret'.token
              registered == t \in DOMAIN sessions
          IN /\ ret'.ok <=> (registered /\ now < sessions[t].expires)
             /\ ret'.ok => /\ ret'.session.username = sessions[t].username
                           /\ ret'.session.role = sessions[t].role
                           /\ sessions' = sessions
             /\ (registered /\ now >= sessions[t].expires)
                   => (~ret'.ok /\ sessions' = Without(sessions, {t}))
             /\ ~registered => (~ret'.ok /\ sessions' = sessions)
             /\ users' = users
    \* a token that was minted and is registered no more stays so
    /\ \A t \in 1..tokenCtr : t \notin DOMAIN sessions => t \notin DOMAIN sessions'
    \* the session of a login is valid right after it
    /\ (IsCall("verify_credentials") /\ ret'.ok)
          => /\ ret'.token \in DOMAIN sessions'
             /\ now' < sessions'[ret'.token].expires

\* C9: verify_session(token) succeeds, with the session's username and role,
\* exactly when the token is registered and now < expires; a registered
\* token with now >= expires fails and exactly that session is deleted, and
\* the token fails ever after; an unregistered token fails and nothing
\* changes; a session is valid right after the login that made it.
C9_VerifySession == [][C9_Step]_vars

\* verify_session has found a session expired and deleted it
C9_Witness ==
    /\ ret.op = "verify_session" /\ ~ret.ok /\ ret.expired
    /\ ret.token \in 1..tokenCtr
    /\ ret.token \notin DOMAIN sessions

C10_Step ==
    ((IsCall("add_user") \/ IsCall("remove_user"))
        /\ LET t == ret'.token
           IN \/ t \notin DOMAIN sessions
              \/ now >= sessions[t].expires
              \/ sessions[t].role # "admin")
        => /\ ~ret'.ok
           /\ ret'.msg = "Unauthorized access"
           /\ users' = users

\* C10: add_user or remove_user with an acting token that is unregistered,
\* expired or of a session whose role is not admin returns the unauthorized
\* failure and leaves the account map as it was.
C10_UnauthorizedChangesNothing == [][C10_Step]_vars

\* a user without the admin role has presented a valid token to add_user
\* and was refused
C10_Witness ==
    /\ ret.op = "add_user" /\ ~ret.ok /\ ret.msg = "Unauthorized access"
    /\ ret.token \in DOMAIN sessions
    /\ sessions[ret.token].role = "user"
    /\ now < sessions[ret.token].expires

C11_Step ==
    /\ N_admin \in DOMAIN users' /\ users'[N_admin].role = "admin"
    /\ (IsCall("remove_user") /\ ret'.username = N_admin)
          => (~ret'.ok /\ users' = users)

\* C11: after initialisation and any sequence of verify_credentials,
\* add_user, remove_user and change_password calls, the account map holds an
\* account named admin with role admin, and remove_user(token, "admin")
\* fails for every token.
C11_AdminAlwaysExists ==
    /\ (N_admin \in DOMAIN users /\ users[N_admin].role = "admin")
    /\ [][C11_Step]_vars

\* an administrator with a valid session has asked to remove admin and was
\* refused, after admin's password had been changed
C11_Witness ==
    /\ ret.op = "remove_user" /\ ret.username = N_admin
    /\ ~ret.ok /\ ret.msg = "Cannot remove admin user"
    /\ users[N_admin].salt # DefaultSalt

C12_Step ==
    (IsCall("remove_user") /\ ret'.ok) =>
        LET u == ret'.username
        IN /\ u \in DOMAIN users
           /\ DOMAIN users' = DOMAIN users \ {u}
           /\ \A v \in DOMAIN users' : users'[v] = users[v]
           /\ \A t \in DOMAIN sessions' : sessions'[t].username # u
           /\ \A t \in DOMAIN sessions :
                 sessions[t].username # u
                    => (t \in DOMAIN sessions' /\ sessions'[t] = sessions[t])
           /\ DOMAIN sessions' \subseteq DOMAIN sessions

\* C12: after remove_user(adminToken, u) has succeeded, account u is absent
\* from the store and the other accounts are as before, no session of u is
\* left in the session map, and the sessions of all other users are
\* unchanged.
C12_RemoveUserCascades == [][C12_Step]_vars

\* an account that held a session has been removed: its token, minted
\* earlier, is registered no more, while admin's session is
C12_Witness ==
    /\ ret.op = "remove_user" /\ ret.ok
    /\ ret.username \notin DOMAIN users
    /\ ret.removed # {}
    /\ ret.removed \cap DOMAIN sessions = {}
    /\ ret.token \in DOMAIN sessions

C13_Step ==
    (ret'.op = "logout" /\ ret.op = "login" /\ ret.verified) =>
        /\ ret.token \notin DOMAIN sessions'
        /\ ~(ret.token \in DOMAIN sessions' /\ now' < sessions'[ret.token].expires)

\* C13: after a user who logged in through the menu logs out, the session
\* token minted by that login is no longer in the session map and no longer
\* validates.
C13_LogoutDestroysSession == [][C13_Step]_vars

C14_Step ==
    (IsCall("change_password") /\ ret'.ok) =>
        LET t == ret'.token
            old == ret'.old_password
            new == ret'.new_password
        IN /\ t \in DOMAIN sessions /\ now < sessions[t].expires
           /\ LET u == sessions[t].username
              IN /\ u \in DOMAIN users
                 /\ hash_password(old, users[u].salt) = users[u].password
                 /\ validate_password(new) = PasswordIsValid
                 /\ u \in DOMAIN users'
                 /\ hash_password(new, users'[u].salt) = users'[u].password
                 /\ old # new
                       => hash_password(old, users'[u].salt) # users'[u].password
                 /\ users'[u].salt # users[u].salt
                 /\ \A v \in DOMAIN users \ {u} :
                       v \in DOMAIN users' /\ users'[v] = users[v]
           /\ \A s \in DOMAIN sessions :
                 s \in DOMAIN sessions' /\ sessions'[s] = sessions[s]

\* C14: change_password(token, old, new) succeeds only with a registered,
\* unexpired session, an old password whose hash under the account's stored
\* salt is the stored hash, and a new password that passes the strength rule;
\* after a success the new password hash-matches the account (so
\* verify_credentials(user, new) succeeds), the old one, when different, does
\* not, the stored salt differs from the previous one, and every session that
\* existed before the call is still registered.
C14_ChangePassword == [][C14_Step]_vars

\* admin has changed the default password for another one
C14_Witness ==
    /\ ret.op = "change_password" /\ ret.ok
    /\ ret.old_password = P_admin123 /\ ret.new_password = P_Valid123
    /\ users[N_admin].salt # DefaultSalt
    /\ hash_password(P_Valid123, users[N_admin].salt) = users[N_admin].password
    /\ ret.token \in DOMAIN sessions

\* C15: the password rule accepts a password exactly when it has at least 8
\* characters, an uppercase letter, a lowercase letter and a digit; a
\* rejection carries the message of the first rule broken in the order
\* length, uppercase, lowercase, digit ("short1" length, "alllowercase1"
\* uppercase, "ALLUPPERCASE1" lowercase, "NoDigitsHere" digit, "Valid123"
\* accepted).
C15_PasswordRule ==
    phase = "validated" =>
        LET long == Len(text) >= 8
            upper == \E i \in 1..Len(text) : text[i] \in UpperChars
            lower == \E i \in 1..Len(text) : text[i] \in LowerChars
            digit == \E i \in 1..Len(text) : text[i] \in DigitChars
            m_length == "Password must be at least 8 characters long"
            m_upper == "Password must contain at least one uppercase letter"
            m_lower == "Password must contain at least one lowercase letter"
            m_digit == "Password must contain at least one number"
        IN /\ out = PasswordIsValid <=> (long /\ upper /\ lower /\ digit)
           /\ out = m_length <=> ~long
           /\ out = m_upper <=> (long /\ ~upper)
           /\ out = m_lower <=> (long /\ upper /\ ~lower)
           /\ out = m_digit <=> (long /\ upper /\ lower /\ ~digit)
           /\ text = P_short1 => out = m_length
           /\ text = P_alllowercase1 => out = m_upper
           /\ text = P_ALLUPPERCASE1 => out = m_lower
           /\ text = P_NoDigitsHere => out = m_digit
           /\ text = P_Valid123 => out = PasswordIsValid

\* a password of exactly 8 characters with the three kinds of character in
\* it has been accepted
C15_Witness ==
    /\ phase = "validated" /\ out = PasswordIsValid
    /\ Len(text) = 8 /\ text # P_Valid123 /\ text # P_admin123

\* a step of the dictionary manager that is the call `op`: every call
\* leaves its clock alone, and the clock's step leaves ret alone
IsStoreCall(op) == clock' = clock /\ ret'.op = op

\* row i of a batch of words has three columns, a category of prefix_map
\* and, as a connector, no more than 4 characters
C16_WellFormed(rows, i) ==
    /\ Len(rows[i]) = 3
    /\ CleanRow(rows[i])[3] \in { <<"1">>, <<"2">>, <<"3">>, <<"4">>, <<"5">> }
    /\ CleanRow(rows[i])[3] = <<"5">> => Len(CleanRow(rows[i])[2]) <= 4

\* row i succeeds: it is well formed and its english is neither in the
\* vocabulary nor that of an earlier well-formed row
C16_Succeeds(rows, i, vocabulary) ==
    /\ C16_WellFormed(rows, i)
    /\ CleanRow(rows[i])[1] \notin DOMAIN vocabulary
    /\ \A j \in 1..(i - 1) :
          C16_WellFormed(rows, j) => CleanRow(rows[j])[1] # CleanRow(rows[i])[1]

C16_Step ==
    IsStoreCall("batch_add_words") =>
        LET rows == ret'.rows
            errors == ret'.errors
            before == read_dictionary
            after == read_file(dictionary')
            good == { i \in 1..Len(rows) : C16_Succeeds(rows, i, before.vocabulary) }
        IN /\ ret'.success_count + Len(errors) = Len(rows)
           /\ ret'.success_count = Cardinality(good)
           /\ \A k \in 1..Len(errors) :
                 /\ errors[k].row \in (1..Len(rows)) \ good
                 /\ k > 1 => errors[k - 1].row < errors[k].row
           /\ DOMAIN after.vocabulary =
                 DOMAIN before.vocabulary \cup { CleanRow(rows[i])[1] : i \in good }
           /\ \A e \in DOMAIN before.vocabulary :
                 after.vocabulary[e] = before.vocabulary[e]
           /\ \A i \in good :
                 LET x == CleanRow(rows[i])[2]
                     c == CleanRow(rows[i])[3][1]
                 IN after.vocabulary[CleanRow(rows[i])[1]]
                        \in { x, default_prefix[c] \o x }
           /\ after.special_phrases = before.special_phrases

\* C16: batch_add_words gives every row exactly one outcome, a success or
\* one error with the row's 1-based number (wrong column count, unknown
\* category, english already present or earlier in the batch, connector
\* longer than 4), so that success_count plus the number of errors is the
\* number of rows; a bad row does not stop the later ones, and afterwards the
\* lexicon is the previous lexicon plus exactly the entries of the rows that
\* succeeded.
C16_BatchRowsIndependent == [][C16_Step]_vars

\* the call logged in r changed the lexicon
C17_Succeeded(r) ==
    IF r.op \in { "batch_add_words", "batch_add_special_phrases" }
    THEN r.success_count > 0
    ELSE r.ok

C17_Step ==
    (/\ \E op \in { "add_word", "edit_word", "remove_word", "add_special_phrase",
                     "remove_special_phrase", "batch_add_words",
                     "batch_add_special_phrases" } : IsStoreCall(op)
     /\ C17_Succeeded(ret'))
        => /\ \E t \in DOMAIN backups' : backups'[t] = dictionary
           /\ \A t \in DOMAIN backups :
                 \E u \in DOMAIN backups' : backups'[u] = backups[t]

\* C17: every successful mutating lexicon call makes a backup that holds
\* exactly the content the store had before the mutation, and that backup
\* remains available afterwards, also when several mutations happen within
\* the same clock second.
C17_BackupBeforeEveryWrite == [][C17_Step]_vars

\* the form x passes the validation for category c
C18_FormValid(x, c) ==
    /\ \E i \in 1..Len(x), cons \in { <<"x">>, <<"t","h">>, <<"k","'">>, <<"z","z">>,
                                      <<"p","h">>, <<"r","'">> } :
          i + Len(cons) - 1 <= Len(x) /\ SubSeq(x, i, i + Len(cons) - 1) = cons
    /\ c \in { "1", "2", "3", "4", "5" }
    /\ c = "5" => Len(x) <= 4
    /\ c # "5" => \E p \in prefix_map[c] : SubSeq(x, 1, Len(p)) = p

C18_Step ==
    LET lexicon == read_file(dictionary)
        nothing_changed == dictionary' = dictionary /\ backups' = backups
    IN /\ (/\ IsStoreCall("add_word")
            /\ \/ ret'.english \in DOMAIN lexicon.vocabulary
               \/ ~C18_FormValid(ret'.xelthor, ret'.category))
              => (~ret'.ok /\ nothing_changed)
       /\ ((IsStoreCall("edit_word") \/ IsStoreCall("remove_word"))
              /\ ret'.english \notin DOMAIN lexicon.vocabulary)
              => (~ret'.ok /\ nothing_changed)
       /\ (IsStoreCall("remove_special_phrase")
              /\ ret'.english \notin DOMAIN lexicon.special_phrases)
              => (~ret'.ok /\ nothing_changed)
       /\ ((\E op \in { "add_word", "edit_word", "remove_word",
                          "remove_special_phrase" } : IsStoreCall(op))
              /\ ~ret'.ok)
              => nothing_changed

\* C18: a failed lexicon mutation changes nothing: add_word with an english
\* key already present, a form that fails the validation for the declared
\* category, or an unknown category, and edit_word, remove_word or
\* remove_special_phrase on an absent key, return False, leave the persisted
\* lexicon as it was and create no backup.
C18_FailedMutationChangesNothing == [][C18_Step]_vars

\* after a write that made a backup, add_word with a category there is none
\* of has returned False
C18_Witness ==
    /\ ret.op = "add_word" /\ ~ret.ok
    /\ ret.category = "9"
    /\ ret.english \notin DOMAIN read_file(dictionary).vocabulary
    /\ DOMAIN backups # {}

C19_Step ==
    ((IsCall("add_user") \/ IsCall("remove_user") \/ IsCall("change_password"))
        /\ ~ret'.ok)
        => (users' = users /\ sessions' = sessions)

\* C19: whenever add_user, remove_user or change_password returns a failure
\* result, the persisted account map and the in-memory session map are both
\* exactly as they were before the call.
C19_FailureChangesNothing == [][C19_Step]_vars

\* C20: translate_to_xelthor and translate_to_english let no exception
\* out, whatever the text and the tense: an empty text gives the empty
\* string, a tense that is none of the four behaves as present, and a failure
\* inside the call gives a string that starts with "Translation error:".
C20_NeverRaises ==
    LET failed == StartsWith(out, S_TranslationError)
        is_str == text \notin { None, PyInt5 }
        has_verb == \E i \in 1..Len(Forms(text)) :
                       \E p \in VerbPrefixes : StartsWith(Forms(text)[i], p)
    IN /\ phase \in { "to_xelthor", "to_english" } =>
             /\ Len(out) > 0 => out[1] # "raise"
             /\ text = <<>> => out = <<>>
             /\ text = PyInt5 => failed
       /\ (phase = "to_xelthor" /\ is_str) =>
             /\ (tense \notin { "present", "past", "future", "eternal", PyList })
                    => out = translate_to_xelthor(text, "present")
             /\ (tense = PyList /\ has_verb) => failed
             /\ (tense = PyList /\ ~has_verb)
                    => out = translate_to_xelthor(text, "present")

\* a text with a verb in it was translated under a tense that is a list,
\* and the call returned the error string
C20_Witness ==
    /\ phase = "to_xelthor" /\ tense = PyList
    /\ text = W_traveler \o <<" ">> \o W_see \o <<" ">> \o W_star
    /\ out = S_TranslationError \o <<" ">> \o E_unhashable

\* how often the token w stands in the sequence ws
Count(ws, w) == Cardinality({ i \in 1..Len(ws) : ws[i] = w })

\* the form starts with one of zz', ph', xa', vor', mii'
C21_Prefixed(form) ==
    \E p \in { <<"z","z","'">>, <<"p","h","'">>, <<"x","a","'">>,
               <<"v","o","r","'">>, <<"m","i","i","'">> } :
        Len(form) >= Len(p) /\ SubSeq(form, 1, Len(p)) = p

\* the translated forms of a text, each with the suffix of the tense when it
\* starts with one of the five prefixes and bare otherwise
C21_Expected(t, tn) ==
    [i \in 1..Len(Forms(t)) |->
        IF C21_Prefixed(Forms(t)[i])
        THEN Forms(t)[i] \o ToneMarker(tn)
        ELSE Forms(t)[i]]

\* C21: translate_to_xelthor with tense t appends the suffix of t to every
\* output token whose translated form starts with one of zz', ph', xa', vor',
\* mii' (vor' and mii' nouns too, not only the first verb) and to no other
\* token: bracketed unknown words, xel' nouns and connectors come out bare.
C21_TenseOnPrefixedTokensOnly ==
    (phase = "to_xelthor" /\ tense \in { "present", "past", "future", "eternal" }) =>
        LET tokens == Split(out)
            expected == C21_Expected(text, tense)
        IN /\ Len(tokens) = Len(expected)
           /\ \A i \in 1..Len(expected) :
                 Count(tokens, expected[i]) = Count(expected, expected[i])

\* a verb, a vor' noun and a xel' noun were translated in the past tense: the
\* first two carry -pa, the third does not
C21_Witness ==
    /\ phase = "to_xelthor" /\ tense = "past"
    /\ text = W_see \o <<" ">> \o W_light \o <<" ">> \o W_star
    /\ out = <<"x","a","'","l","o","r","-","p","a"," ",
               "v","o","r","'","k","a","a","n","-","p","a"," ",
               "x","e","l","'","k","a">>

\* callers a and b have both returned from a successful add_user, for
\* different usernames
C22_BothAdded(a, b) ==
    /\ a # b
    /\ pending[a].auth.pc = "done" /\ pending[a].auth.ok
    /\ pending[b].auth.pc = "done" /\ pending[b].auth.ok
    /\ pending[a].auth.username # pending[b].auth.username

\* callers a and b have both returned from a successful add_word, for
\* different words
C22_BothWords(a, b) ==
    /\ a # b
    /\ pending[a].lexicon.pc = "done" /\ pending[a].lexicon.ok
    /\ pending[b].lexicon.pc = "done" /\ pending[b].lexicon.ok
    /\ pending[a].lexicon.english # pending[b].lexicon.english

\* C22: with nothing that keeps a second writer out between the read of the
\* whole store and the write of the whole store, updates are lost: when two
\* add_user calls for different usernames (or two add_word calls for
\* different words) have both returned success and neither had read the
\* other's update, the final store holds exactly one of the two updates; it
\* holds both only when one call read what the other had written.
C22_LostUpdate ==
    \A a, b \in Callers :
        /\ C22_BothAdded(a, b) =>
              LET ua == pending[a].auth.username
                  ub == pending[b].auth.username
                  apart == ub \notin DOMAIN pending[a].auth.read
                           /\ ua \notin DOMAIN pending[b].auth.read
              IN /\ ua \in DOMAIN users \/ ub \in DOMAIN users
                 /\ apart <=> ~(ua \in DOMAIN users /\ ub \in DOMAIN users)
        /\ C22_BothWords(a, b) =>
              LET ea == pending[a].lexicon.english
                  eb == pending[b].lexicon.english
                  apart == eb \notin DOMAIN pending[a].lexicon.read.vocabulary
                           /\ ea \notin DOMAIN pending[b].lexicon.read.vocabulary
              IN /\ ea \in DOMAIN dictionary.vocabulary
                    \/ eb \in DOMAIN dictionary.vocabulary
                 /\ apart <=> ~(/\ ea \in DOMAIN dictionary.vocabulary
                                /\ eb \in DOMAIN dictionary.vocabulary)

\* both callers were told that the user was added and that the word was
\* added; the account file holds bob and not alice, the dictionary file holds
\* star and not song
C22_Witness ==
    /\ C22_BothAdded("A", "B") /\ C22_BothWords("A", "B")
    /\ pending["A"].auth.username = N_alice /\ pending["B"].auth.username = N_bob
    /\ N_alice \notin DOMAIN users /\ N_bob \in DOMAIN users
    /\ pending["A"].lexicon.english = D_song /\ pending["B"].lexicon.english = W_star
    /\ D_song \notin DOMAIN dictionary.vocabulary
    /\ W_star \in DOMAIN dictionary.vocabulary

\* the clock values of the backups in the directory, in ascending order
RECURSIVE C23_CreationOrder(_)
C23_CreationOrder(times) ==
    IF times = {} THEN <<>>
    ELSE << SetMin(times) >> \o C23_CreationOrder(times \ { SetMin(times) })

C23_Step ==
    /\ IsStoreCall("restore_backup") =>
          LET made == { t \in DOMAIN backups : strftime(t) = ret'.name }
          IN /\ made # {} =>
                   /\ ret'.ok
                   /\ \A t \in made :
                         /\ dictionary' = backups[t]
                         /\ read_file(dictionary') = read_file(backups[t])
             /\ made = {} => (~ret'.ok /\ dictionary' = dictionary)
             /\ backups' = backups
    \* what a backup holds is the store that was live when it was made
    /\ \A t \in DOMAIN backups' :
          (t \notin DOMAIN backups \/ backups'[t] # backups[t])
              => (t = clock /\ backups'[t] = dictionary)
    /\ IsStoreCall("list_backups") =>
          LET names == ret'.names
              order == C23_CreationOrder(DOMAIN backups)
          IN /\ Len(names) = Len(order)
             /\ \A i \in 1..Len(names) : names[i] = strftime(order[i])
             /\ \A i \in 1..(Len(names) - 1) : StrLess(names[i], names[i + 1])

\* C23: restore_backup(b) for an existing backup b makes the live store's
\* content that of b and returns True, so that read_dictionary then returns
\* the lexicon that was live when b was made; for a missing backup it
\* returns False and leaves the live store as it was; list_backups returns
\* the names in ascending lexicographic order, which is the order in which
\* the backups were made.
C23_RestoreAndList == [][C23_Step]_vars

\* after two writes in different seconds, the backup of the first second was
\* restored: the store is again the dictionary the run started with
C23_Witness ==
    /\ ret.op = "restore_backup" /\ ret.ok /\ ret.name = strftime(0)
    /\ DOMAIN backups = { 0, 1 }
    /\ writes = 2
    /\ dictionary = initial_dictionary
    /\ backups[1] # initial_dictionary

\* the token is a form of the reverse map with the future suffix -zi
C24_FutureMarked(word) ==
    /\ Len(word) > 3
    /\ SubSeq(word, Len(word) - 2, Len(word)) = <<"-","z","i">>
    /\ SubSeq(word, 1, Len(word) - 3) \in DOMAIN xel_to_eng

\* C24: translate_to_english of a token sequence with at least one known
\* form carrying the future suffix -zi puts the word "will" in front of the
\* result exactly once, wherever the future-marked token stands in the input
\* (also when it is the first or the only token).
C24_WillPrependedOnce ==
    phase = "to_english" =>
        LET words == Split(text)
            result == Split(out)
        IN (\E i \in 1..Len(words) : C24_FutureMarked(words[i])) =>
              /\ Len(result) > 0
              /\ result[1] = <<"w","i","l","l">>
              /\ Count(result, <<"w","i","l","l">>) = 1

C25_Step ==
    (/\ IsCall("add_user")
     /\ ret'.token \in DOMAIN sessions
     /\ now < sessions[ret'.token].expires
     /\ sessions[ret'.token].role = "admin"
     /\ ret'.username \in DOMAIN users)
        => /\ ~ret'.ok
           /\ ret'.msg = "Username already exists"
           /\ users' = users

\* C25: add_user with a valid admin session and a username that is already
\* present fails with the username-exists result whatever password and role
\* are supplied, and the existing account's hash, salt and role are as
\* before (no account, admin included, is overwritten through add_user).
C25_ExistingUserNotOverwritten == [][C25_Step]_vars

C26_Step ==
    (IsStoreCall("batch_add_words") \/ IsStoreCall("batch_add_special_phrases")) =>
        LET n == ret'.success_count
            before == read_file(dictionary)
            after == read_file(dictionary')
            added == IF ret'.op = "batch_add_words"
                     THEN DOMAIN after.vocabulary \ DOMAIN before.vocabulary
                     ELSE DOMAIN after.special_phrases \ DOMAIN before.special_phrases
        IN /\ writes' \in { writes, writes + 1 }
           /\ n = 0 => (dictionary' = dictionary /\ backups' = backups)
           /\ n > 0 => Cardinality(added) = n

\* C26: batch_add_words and batch_add_special_phrases write the store at
\* most once per call, and only when success_count > 0; whenever they return
\* success_count = n > 0, exactly those n entries are in the persisted
\* lexicon afterwards (a final write that failed is not reported as n
\* successes).
C26_BatchCountIsPersisted == [][C26_Step]_vars

\* the rule of the category: a prefix of the category for 1 to 4, no more
\* than 4 characters for 5
C27_CategoryRule(x, c) ==
    LET starts(p) == Len(x) >= Len(p) /\ SubSeq(x, 1, Len(p)) = p
    IN CASE c = "1" -> \/ starts(<<"z","z","'">>) \/ starts(<<"p","h","'">>)
                       \/ starts(<<"x","a","'">>) \/ starts(<<"v","o","r","'">>)
                       \/ starts(<<"m","i","i","'">>)
         [] c = "2" -> starts(<<"x","e","l","'">>)
         [] c = "3" -> starts(<<"v","o","r","'">>)
         [] c = "4" -> starts(<<"m","i","i","'">>)
         [] c = "5" -> Len(x) <= 4

\* one of x, th, k', zz, ph, r' stands somewhere in the form
C27_HasConsonantGroup(x) ==
    \E i \in 1..Len(x) :
        \/ x[i] = "x"
        \/ /\ i < Len(x)
           /\ << x[i], x[i + 1] >> \in { <<"t","h">>, <<"k","'">>, <<"z","z">>,
                                         <<"p","h">>, <<"r","'">> }

\* C27 as claimed: validate_word(xelthor, category) accepts exactly when
\* the form starts with a prefix of the category (1: zz', ph', xa', vor',
\* mii'; 2: xel'; 3: vor'; 4: mii') or, for category 5, has at most 4
\* characters, with no other requirement on a connector.
C27_CategoryRuleOnly ==
    (ret.op = "validate_word" /\ ret.category \in { "1", "2", "3", "4", "5" })
        => (ret.result = "ok" <=> C27_CategoryRule(ret.xelthor, ret.category))

\* C27 as amended: validate_word(xelthor, category) accepts exactly when
\* the form holds one of the consonant groups x, th, k', zz, ph, r' and
\* starts with a prefix of the category (1: zz', ph', xa', vor', mii'; 2:
\* xel'; 3: vor'; 4: mii') or, for category 5, has at most 4 characters.
C27_ConsonantAndCategoryRule ==
    (ret.op = "validate_word" /\ ret.category \in { "1", "2", "3", "4", "5" })
        => (ret.result = "ok" <=>
               /\ C27_HasConsonantGroup(ret.xelthor)
               /\ C27_CategoryRule(ret.xelthor, ret.category))

\* the connector "je", of two characters and without a consonant group, was
\* rejected
C27_Witness ==
    /\ ret.op = "validate_word" /\ ret.category = "5"
    /\ ret.xelthor = <<"j","e">>
    /\ ret.result = "invalid"

C28_Step ==
    \* the handler is invoked only if a user is logged in when the loop ends
    /\ (wrapper.pc = "loop" /\ wrapper'.pc = "returned" /\ wrapper'.invoked)
          => current_user' # <<"None">>
    \* no login prompt when a user is logged in already
    /\ (wrapper.pc = "loop" /\ wrapper.prompts = 0 /\ current_user # <<"None">>)
          => (wrapper'.pc = "returned" /\ wrapper'.prompts = 0 /\ wrapper'.invoked)

\* C28: the require_auth wrapper ends after at most 3 login prompts; it
\* invokes the handler only if current_user is set when the loop ends, asks
\* for no login when current_user is set already, and after 3 failed or
\* cancelled logins it returns without invoking the handler.
C28_GateEndsWithinThreePrompts ==
    /\ [](wrapper.pc \in { "loop", "returned" } =>
             /\ wrapper.prompts <= 3
             /\ wrapper.prompts = 3 => wrapper.pc = "returned"
             /\ wrapper.refused = 3 => (wrapper.pc = "returned" /\ ~wrapper.invoked))
    /\ [][C28_Step]_vars

C29_Step ==
    ((\E op \in { "add_word", "edit_word", "remove_word", "add_special_phrase",
                   "remove_special_phrase" } : IsStoreCall(op))
        /\ ret'.ok)
        => LET before == read_file(dictionary)
               after == read_file(dictionary')
               on_words == ret'.op \in { "add_word", "edit_word", "remove_word" }
           IN /\ \A k \in DOMAIN before.vocabulary :
                    (on_words /\ k = ret'.english)
                    \/ (/\ k \in DOMAIN after.vocabulary
                        /\ after.vocabulary[k] = before.vocabulary[k])
              /\ \A k \in DOMAIN before.special_phrases :
                    (~on_words /\ k = ret'.english)
                    \/ (/\ k \in DOMAIN after.special_phrases
                        /\ after.special_phrases[k] = before.special_phrases[k])

\* C29: every successful add_word, edit_word, remove_word,
\* add_special_phrase or remove_special_phrase changes only the key it is
\* given: every other vocabulary and special-phrase entry of the persisted
\* store is there with the same value afterwards, also when the read at the
\* start of the call fails and read_dictionary returns its empty default.
C29_OnlyTargetedKeyChanges == [][C29_Step]_vars

\* C30: after any sequence of add_word, edit_word, remove_word and
\* batch_add_words calls with arbitrary strings, every english key of the
\* persisted vocabulary is lowercase and no two keys differ in case only
\* ("Dog" and "dog" never stand side by side).
C30_KeysLowercaseAndUnique ==
    /\ \A k \in DOMAIN dictionary.vocabulary : k = Lower(k)
    /\ \A k1, k2 \in DOMAIN dictionary.vocabulary : Lower(k1) = Lower(k2) => k1 = k2

====
